---- MODULE Spec2Model ----
(***************************************************************************)
(* Negation-aware term search over PDF reports (R3tr0gh057/Categorizer).   *)
(*                                                                         *)
(* Two aggregators are modelled, each from its own script:                 *)
(*   sentence_scoped : Phase-two/local-search.py  find_and_process_pdfs    *)
(*   whole_document  : app/PDFsearcher.py         find_and_process_pdfs    *)
(*                     followed by write_report                            *)
(*                                                                         *)
(* A Python str is a sequence of one-character strings.  The alphabet is   *)
(* small: "a" "b" "c" are letters of terms, "n" and "u" stand for the      *)
(* words of the negation vocabulary, "." is a sentence terminator, " " is  *)
(* whitespace and "A" "B" are upper-case letters.  The long string         *)
(* literals of the scripts are abbreviated over this alphabet (see         *)
(* NEGATIVE_KEYWORDS, NoEvidenceOf, Acute); every string operation is      *)
(* computed as Python computes it.                                         *)
(***************************************************************************)
EXTENDS Integers, Sequences, FiniteSets, TLC

\* ------------------------------------------------------------------ bounds
\* longest input list handed to one call of an aggregator
MaxPdfs == 2
\* longest page text of the one-document corpus of SpecMatch
MaxTextLen == 5
\* number of calls of the aggregator in one behaviour
MaxCalls == 3
\* longest page text of the two-document corpus of SpecPhrase
MaxPhraseTextLen == 3

\* ------------------------------------------------------------ Python values
\* the value None (extract_text_from_pdf's result for an unreadable file)
None == <<"None">>

\* bool(x) for x an Optional[str]: None and "" are falsy
Truthy(x) == x # None /\ x # <<>>

Whitespace == {" "}
Terminators == {".", "?", "!"}

\* str.lower() on one character
LowerChar(c) ==
    CASE c = "A" -> "a"
      [] c = "B" -> "b"
      [] c = "Y" -> "y"
      [] OTHER -> c

\* str.lower()
Lower(s) == [k \in 1..Len(s) |-> LowerChar(s[k])]

\* Python's `sub in s` for two strings: sub occurs as a contiguous slice
In(sub, s) ==
    \E k \in 0..(Len(s) - Len(sub)) : SubSeq(s, k + 1, k + Len(sub)) = sub

\* " ".join(pages)
RECURSIVE Join(_)
Join(pages) ==
    IF pages = <<>> THEN <<>>
    ELSE IF Len(pages) = 1 THEN pages[1]
    ELSE pages[1] \o <<" ">> \o Join(Tail(pages))

\* str.strip(): drop leading and trailing whitespace
RECURSIVE LStrip(_)
LStrip(s) ==
    IF s # <<>> /\ s[1] \in Whitespace THEN LStrip(Tail(s)) ELSE s

RECURSIVE RStrip(_)
RStrip(s) ==
    IF s # <<>> /\ s[Len(s)] \in Whitespace
    THEN RStrip(SubSeq(s, 1, Len(s) - 1))
    ELSE s

Strip(s) == RStrip(LStrip(s))

\* first position >= k of s that holds no whitespace (Len(s)+1 if none)
RECURSIVE SkipWhitespace(_, _)
SkipWhitespace(s, k) ==
    IF k <= Len(s) /\ s[k] \in Whitespace THEN SkipWhitespace(s, k + 1) ELSE k

\* variant: the pattern is [.?!]\s*, every terminator ends the piece
RECURSIVE ReSplitFrom_any_terminator(_, _, _, _)
ReSplitFrom_any_terminator(s, k, cur, acc) ==
    IF k > Len(s) THEN Append(acc, cur)
    ELSE IF s[k] \in Terminators
         THEN ReSplitFrom_any_terminator(s, SkipWhitespace(s, k + 1), <<>>,
                                         Append(acc, cur))
         ELSE ReSplitFrom_any_terminator(s, k + 1, Append(cur, s[k]), acc)

\* re.split(r'[.?!]\s+', s): scanning left to right, a terminator followed by
\* at least one whitespace character ends the current piece; the terminator
\* and the whole whitespace run (\s+ is greedy) are dropped.
RECURSIVE ReSplitFrom(_, _, _, _)
ReSplitFrom(s, k, cur, acc) ==
    IF k > Len(s) THEN Append(acc, cur)
    ELSE IF s[k] \in Terminators /\ k < Len(s) /\ s[k + 1] \in Whitespace
         THEN ReSplitFrom(s, SkipWhitespace(s, k + 1), <<>>, Append(acc, cur))
         ELSE ReSplitFrom(s, k + 1, Append(cur, s[k]), acc)

ReSplit(s) == ReSplitFrom(s, 1, <<>>, <<>>)

\* variant: the pieces are stripped but the empty ones are kept
RECURSIVE StripNonEmpty_keep_empty(_)
StripNonEmpty_keep_empty(pieces) ==
    IF pieces = <<>> THEN <<>>
    ELSE <<Strip(pieces[1])>> \o StripNonEmpty_keep_empty(Tail(pieces))

\* [s.strip() for s in pieces if s.strip()]
RECURSIVE StripNonEmpty(_)
StripNonEmpty(pieces) ==
    IF pieces = <<>> THEN <<>>
    ELSE IF Strip(pieces[1]) # <<>>
         THEN <<Strip(pieces[1])>> \o StripNonEmpty(Tail(pieces))
         ELSE StripNonEmpty(Tail(pieces))

\* the two statements that build `sentences` from full_text
Sentences(full_text) == StripNonEmpty(ReSplit(full_text))

Range(s) == {s[k] : k \in 1..Len(s)}

\* --------------------------------------------------------- string constants
\* NEGATIVE_KEYWORDS of local-search.py, abbreviated to two phrases:
\* "n" for "no evidence", "u" for "unlikely"
NEGATIVE_KEYWORDS == << <<"n">>, <<"u">> >>

\* the literal "no evidence of " of f"no evidence of {term}"
NoEvidenceOf == <<"n", " ">>

\* the literal 'acute ' of term.replace('acute ', '')
Acute == <<"c", " ">>

\* ------------------------------------------------------------- the corpus
\* One record per PDF path: the base name of the path, whether the path
\* exists, whether PyMuPDF can open it, and the raw text of its pages.
File(name, exists, readable, pages) ==
    [name |-> name, exists |-> exists, readable |-> readable, pages |-> pages]

SampleFiles == <<
    \* "c a"            : 'acute a' asserted
    File(<<"x">>, TRUE, TRUE, << <<"c", " ", "a">> >>),
    \* "n a. b"         : a negated, b asserted in the next sentence
    File(<<"B">>, TRUE, TRUE, << <<"n", " ", "a", ".", " ", "b">> >>),
    \* "n. A b"         : negation in another sentence, upper case in the page
    File(<<"x">>, TRUE, TRUE, << <<"n", ".", " ", "A", " ", "b">> >>),
    \* a corrupt PDF
    File(<<"b">>, TRUE, FALSE, <<>>),
    \* two pages "n a." and "a": a negated, then asserted
    File(<<"x">>, TRUE, TRUE, << <<"n", " ", "a", ".">>, <<"a">> >>),
    \* a PDF without text
    File(<<"x">>, TRUE, TRUE, << <<>> >>),
    \* a path of a custom index that does not exist
    File(<<"b">>, FALSE, FALSE, <<>>)
>>

Docs == DOMAIN SampleFiles

\* the path lists a caller can hand over (the GUI can list a path twice when
\* its two folders overlap, so repetitions are allowed)
RECURSIVE SeqsUpTo(_, _)
SeqsUpTo(S, n) ==
    IF n = 0 THEN {<<>>}
    ELSE LET shorter == SeqsUpTo(S, n - 1)
         IN shorter \cup {Append(q, x) : q \in {r \in shorter : Len(r) = n - 1}, x \in S}

\* the rearrangements of a list
Perms(q) == {[k \in 1..Len(q) |-> q[p[k]]] : p \in Permutations(1..Len(q))}

\* ---------------------------------------------------------------- state
VARIABLES
    fs,                         \* path -> File record
    matching_mode,              \* "sentence_scoped" | "whole_document"
    corpus_pdfs,                \* the caller's list of paths
    terms_to_search,            \* the term list (terms_with_acute in whole_document)
    terms_without_acute,        \* second term list of PDFsearcher.py
    filter_keyword,             \* local-search.py: None or the --scan keyword
    negative_keywords,          \* local-search.py: the global NEGATIVE_KEYWORDS
    pc,                         \* position of the running call
    all_pdfs,                   \* argument of the running call
    i,                          \* index of the loop that is running (1-based)
    filtered_pdfs,
    pdf_paths_to_check_content,
    target_pdfs,
    match_counts,               \* match_counts / exact_match_counts
    match_files,                \* match_files / exact_match_files
    partial_match_counts,
    partial_match_files,
    progress_queue,             \* PDFsearcher.py: messages put by the worker
    evaluated,                  \* history: paths whose text reached the term loops
    last_sentences,             \* local-search.py: `sentences` of the last such path
    returned,                   \* value returned by the call, NoResult before
    report,                     \* what write_report computed, NoReport before
    ncalls,                     \* completed calls
    reference,                  \* input and outcome of the first completed call
    history                     \* input and outcome of every completed call

\* the archive scripts: zipper.py, zipper-destructive.py, cleaner.py
VARIABLES
    script,                     \* which script runs, "none" in the other models
    patient_folders,            \* <<month, name>> -> [listing, exists]
    zipped_dir,                 \* base name -> the file <base name>.zip
    zpc,                        \* position of process_folders / cleaner main
    folders_to_zip,             \* paths handed to executor.map
    task_state,                 \* position of each worker task
    zruns,                      \* completed runs of process_folders
    run_log,                    \* history: tasks and their ends, per run
    typed,                      \* cleaner.py: the answer typed at the prompt
    choice,                     \* cleaner.py: that answer in lower case
    folders_to_delete,
    ci,                         \* index of the deletion loop (1-based)
    deleted_count,
    skipped_count

\* the GUI of PDFsearcher.py (class PdfSearchApp) and its worker thread
VARIABLES
    reports_folder,             \* "" until a folder was selected
    terms_listbox,              \* the items of the listbox, in order
    run_button,                 \* state of the Start Analysis button
    progress_bar,               \* progress_bar['value']
    status_label,
    log_text,                   \* number of lines of the log widget
    thread,                     \* position of run_analysis before the call
    started,                    \* worker threads started so far
    search_terms,               \* run_analysis: the list read from the listbox
    reads,                      \* history: reads of the listbox by workers
    dialogs                     \* history: success dialogs shown

\* updated-sorter.py, process_files
VARIABLES
    source_dir,                 \* names of the files of the source directory
    pdf_files_to_process,
    si,                         \* index of the loop over the work list (1-based)
    skipped_files,
    moved_count,
    spc                         \* position of process_files

gui_vars == <<reports_folder, terms_listbox, run_button, progress_bar,
              status_label, log_text, thread, started, search_terms, reads,
              dialogs>>
sorter_vars == <<source_dir, pdf_files_to_process, si, skipped_files,
                 moved_count, spc>>

archive_vars == <<script, patient_folders, zipped_dir, zpc, folders_to_zip,
                  task_state, zruns, run_log>>
archive_fs == <<patient_folders, zipped_dir>>
cleaner_vars == <<typed, choice, folders_to_delete, ci, deleted_count, skipped_count>>

\* the state of the scripts other than the two aggregators
others == <<archive_vars, cleaner_vars, gui_vars, sorter_vars>>

search_vars == <<fs, matching_mode, corpus_pdfs, terms_to_search, terms_without_acute,
          filter_keyword, pc, all_pdfs, i, filtered_pdfs,
          pdf_paths_to_check_content, target_pdfs, match_counts, match_files,
          partial_match_counts, partial_match_files, progress_queue, evaluated,
          returned, report, ncalls, reference, negative_keywords, last_sentences,
          history>>

vars == <<search_vars, others>>

inputs == <<fs, matching_mode, corpus_pdfs, terms_to_search, terms_without_acute,
            filter_keyword, negative_keywords>>

NoResult == [none |-> TRUE]
NoReport == [none |-> TRUE]
NoReference == [none |-> TRUE]

\* ------------------------------------------------------- text extraction
\* extract_text_from_pdf: the lower-cased pages joined by " ", or None when
\* fitz.open raises (missing or corrupt file)
LowerPages(pages) == [k \in 1..Len(pages) |-> Lower(pages[k])]

extract_text_from_pdf(pdf_path) ==
    IF fs[pdf_path].exists /\ fs[pdf_path].readable
    THEN Join(LowerPages(fs[pdf_path].pages))
    ELSE None

\* variant: the test of the path is left out
path_exists_always(pdf_path) == TRUE

\* os.path.exists(pdf_path)
path_exists(pdf_path) == fs[pdf_path].exists

\* os.path.basename(pdf_path).lower()
basename_lower(pdf_path) == Lower(fs[pdf_path].name)

\* ---------------------------------------------- sentence-scoped evaluation
\* variant: the negation test is left out
is_negated_never(sentence) == FALSE

\* variant: all() instead of any()
is_negated_all(sentence) ==
    \A k \in 1..Len(negative_keywords) : In(negative_keywords[k], sentence)

\* variant: a phrase counts only as a whole word, that is when the
\* characters next to it are whitespace, terminators or the sentence's ends
is_negated_whole_word(sentence) ==
    \E n \in 1..Len(negative_keywords) :
        \E k \in 0..(Len(sentence) - Len(negative_keywords[n])) :
            LET e == k + Len(negative_keywords[n])
            IN /\ SubSeq(sentence, k + 1, e) = negative_keywords[n]
               /\ k >= 1 => sentence[k] \in Whitespace \cup Terminators
               /\ e < Len(sentence) => sentence[e + 1] \in Whitespace \cup Terminators

\* variant: only the first phrase of the vocabulary is looked for
is_negated_first(sentence) ==
    negative_keywords # <<>> /\ In(negative_keywords[1], sentence)

\* any(neg_kw in sentence for neg_kw in NEGATIVE_KEYWORDS)
is_negated(sentence) ==
    \E k \in 1..Len(negative_keywords) : In(negative_keywords[k], sentence)

\* variant: the negation test looks at every sentence of the document
term_found_document_scoped(sentences, term) ==
    /\ \E k \in DOMAIN sentences : In(term, sentences[k])
    /\ \A k \in DOMAIN sentences :
           \A n \in DOMAIN NEGATIVE_KEYWORDS : ~In(NEGATIVE_KEYWORDS[n], sentences[k])

\* variant: the loop is left at the first sentence that holds the term,
\* negated or not
RECURSIVE term_found_first_mention(_, _)
term_found_first_mention(sentences, term) ==
    IF sentences = <<>> THEN FALSE
    ELSE IF In(term, sentences[1])
         THEN \A n \in DOMAIN negative_keywords :
                  ~In(negative_keywords[n], sentences[1])
         ELSE term_found_first_mention(Tail(sentences), term)

\* the loop `for sentence in sentences` with its break: the flag
\* term_found_positively after the loop
RECURSIVE term_found_positively(_, _)
term_found_positively(sentences, term) ==
    IF sentences = <<>> THEN FALSE
    ELSE IF In(term, sentences[1]) /\ ~is_negated(sentences[1]) THEN TRUE
    ELSE term_found_positively(Tail(sentences), term)

\* variant: the guard tests the set for emptiness, `if not match_files[term]`
LS_RecordMatch_first_only(cf, term, pdf_path) ==
    IF cf.files[term] = {}
    THEN [counts |-> [cf.counts EXCEPT ![term] = @ + 1],
          files  |-> [cf.files EXCEPT ![term] = @ \cup {pdf_path}]]
    ELSE cf

\* variant: the set is assigned instead of extended
LS_RecordMatch_overwrite(cf, term, pdf_path) ==
    [counts |-> [cf.counts EXCEPT ![term] = @ + 1],
     files  |-> [cf.files EXCEPT ![term] = {pdf_path}]]

\* `if pdf_path not in match_files[term]:` count and add; cf = [counts, files]
LS_RecordMatch(cf, term, pdf_path) ==
    IF pdf_path \notin cf.files[term]
    THEN [counts |-> [cf.counts EXCEPT ![term] = @ + 1],
          files  |-> [cf.files EXCEPT ![term] = @ \cup {pdf_path}]]
    ELSE cf

\* the loop `for term in terms_to_search` for one PDF
RECURSIVE LS_TermLoop(_, _, _, _)
LS_TermLoop(terms, sentences, pdf_path, cf) ==
    IF terms = <<>> THEN cf
    ELSE LS_TermLoop(Tail(terms), sentences, pdf_path,
            IF term_found_positively(sentences, terms[1])
            THEN LS_RecordMatch(cf, terms[1], pdf_path)
            ELSE cf)

\* variant: the test of the extracted text is left out
LS_SkipDocument_never(full_text) == FALSE

\* `if not full_text: continue`
LS_SkipDocument(full_text) == ~Truthy(full_text)

\* variant: break instead of continue
LS_AfterSkip_break(k, n) == n + 1

\* `continue` in the loop over n paths, at index k: the next path is taken
LS_AfterSkip(k, n) == k + 1

\* variant: the counts of the previous call are kept
NewCounts_leak(terms) ==
    IF DOMAIN match_counts = {terms[k] : k \in DOMAIN terms}
    THEN match_counts
    ELSE [t \in {terms[k] : k \in DOMAIN terms} |-> 0]

\* {term: 0 for term in terms} and {term: set() for term in terms}
NewCounts(terms) == [t \in Range(terms) |-> 0]
NewFiles(terms) == [t \in Range(terms) |-> {}]

\* variant: the overall set is assigned each term's set instead of updated
UnionOver_last(terms, files) ==
    IF terms = <<>> THEN {} ELSE files[terms[Len(terms)]]

\* total_unique_files_overall: update() with every term's set, in list order
RECURSIVE UnionOver(_, _)
UnionOver(terms, files) ==
    IF terms = <<>> THEN {}
    ELSE files[terms[1]] \cup UnionOver(Tail(terms), files)

\* ------------------------------------------------- local-search.py actions
\* the inputs of a call: the caller's list first, then a rearrangement of it
\* or the list without the paths whose text cannot be read
ReadableOnly(q) == SelectSeq(q, LAMBDA d : Truthy(extract_text_from_pdf(d)))

CallInputs ==
    IF ncalls = 0 THEN {corpus_pdfs}
    ELSE Perms(corpus_pdfs) \cup {ReadableOnly(corpus_pdfs)}

\* the arguments (all_pdfs, filter_keyword) of one call
Call(pdfs, keyword) == [pdfs |-> pdfs, filter_keyword |-> keyword]

\* the record kept of a completed call
Completed(pdfs, keyword, target, outcome) ==
    [pdfs |-> pdfs, filter_keyword |-> keyword, target |-> target,
     outcome |-> outcome]

\* the lists of the calls after the first one, in a row
RECURSIVE Covered(_)
Covered(h) ==
    IF Len(h) <= 1 THEN <<>>
    ELSE Covered(SubSeq(h, 1, Len(h) - 1)) \o h[Len(h)].pdfs

\* the calls after the first one walk the first call's list part by part,
\* with the first call's keyword
IsSplit(h) ==
    /\ Len(h) >= 2
    /\ \A k \in 2..Len(h) :
           h[k].pdfs # <<>> /\ h[k].filter_keyword = h[1].filter_keyword
    /\ Len(Covered(h)) <= Len(h[1].pdfs)
    /\ Covered(h) = SubSeq(h[1].pdfs, 1, Len(Covered(h)))

\* the non-empty parts of q that start after its first c paths; when
\* proper is set the part must leave something over
PartsAfter(q, c, proper) ==
    {SubSeq(q, c + 1, e) : e \in (c + 1)..(IF proper THEN Len(q) - 1 ELSE Len(q))}

\* The calls of a behaviour.  The first call gets the caller's list and
\* keyword.  The second gets the same list rearranged or without its
\* unreadable paths, or the paths the first call's filter let through and
\* no keyword, or a first part of the list.  Later calls get the next part.
CallArgs ==
    IF ncalls = 0 THEN {Call(corpus_pdfs, filter_keyword)}
    ELSE IF ncalls = 1
    THEN {Call(q, history[1].filter_keyword) : q \in CallInputs}
         \cup {Call(history[1].target, None)}
         \cup {Call(q, history[1].filter_keyword) :
                   q \in PartsAfter(corpus_pdfs, 0, TRUE)}
    ELSE IF IsSplit(history)
    THEN {Call(q, history[1].filter_keyword) :
             q \in PartsAfter(corpus_pdfs, Len(Covered(history)), FALSE)}
    ELSE {}

\* entry of find_and_process_pdfs up to the first loop
LS_Enter ==
    /\ matching_mode = "sentence_scoped"
    /\ pc \in {"idle", "done"}
    /\ ncalls < MaxCalls
    /\ \E call \in CallArgs :
           /\ all_pdfs' = call.pdfs
           /\ filter_keyword' = call.filter_keyword
    /\ match_counts' = NewCounts(terms_to_search)
    /\ match_files' = NewFiles(terms_to_search)
    /\ filtered_pdfs' = <<>>
    /\ pdf_paths_to_check_content' = <<>>
    /\ evaluated' = <<>>
    /\ last_sentences' = <<>>
    /\ returned' = NoResult
    /\ i' = 1
    /\ IF Truthy(filter_keyword')
       THEN pc' = "filter_names" /\ target_pdfs' = <<>>
       ELSE pc' = "analyze" /\ target_pdfs' = all_pdfs'
    /\ UNCHANGED <<others, fs, matching_mode, corpus_pdfs, terms_to_search,
                   terms_without_acute, negative_keywords,
                   partial_match_counts, partial_match_files,
                   progress_queue, report, ncalls, reference, history>>

\* one iteration of the loop "Filtering PDF filenames"
LS_FilterFilename ==
    /\ pc = "filter_names"
    /\ i <= Len(all_pdfs)
    /\ LET pdf_path == all_pdfs[i]
           filter_keyword_lower == Lower(filter_keyword)
       IN IF ~path_exists(pdf_path)
          THEN UNCHANGED <<filtered_pdfs, pdf_paths_to_check_content>>
          ELSE IF In(filter_keyword_lower, basename_lower(pdf_path))
          THEN /\ filtered_pdfs' = Append(filtered_pdfs, pdf_path)
               /\ UNCHANGED pdf_paths_to_check_content
          ELSE /\ pdf_paths_to_check_content' =
                      Append(pdf_paths_to_check_content, pdf_path)
               /\ UNCHANGED filtered_pdfs
    /\ i' = i + 1
    /\ UNCHANGED <<others, inputs, pc, all_pdfs, target_pdfs, match_counts, match_files,
                   partial_match_counts, partial_match_files, progress_queue,
                   evaluated, last_sentences, returned, report, ncalls, reference, history>>

\* the filename loop is exhausted: the content loop starts
LS_FilterFilenameEnd ==
    /\ pc = "filter_names"
    /\ i > Len(all_pdfs)
    /\ pc' = "filter_content"
    /\ i' = 1
    /\ UNCHANGED <<others, inputs, all_pdfs, filtered_pdfs, pdf_paths_to_check_content,
                   target_pdfs, match_counts, match_files, partial_match_counts,
                   partial_match_files, progress_queue, evaluated, last_sentences, returned,
                   report, ncalls, reference, history>>

\* one iteration of the loop "Filtering PDF content"
LS_FilterContent ==
    /\ pc = "filter_content"
    /\ i <= Len(pdf_paths_to_check_content)
    /\ LET pdf_path == pdf_paths_to_check_content[i]
           full_text == extract_text_from_pdf(pdf_path)
       IN filtered_pdfs' =
             IF Truthy(full_text) /\ In(Lower(filter_keyword), full_text)
             THEN Append(filtered_pdfs, pdf_path)
             ELSE filtered_pdfs
    /\ i' = i + 1
    /\ UNCHANGED <<others, inputs, pc, all_pdfs, pdf_paths_to_check_content, target_pdfs,
                   match_counts, match_files, partial_match_counts,
                   partial_match_files, progress_queue, evaluated, last_sentences, returned,
                   report, ncalls, reference, history>>

\* target_pdfs = all_pdfs after a filter that rewrites its argument
\* (all_pdfs[:] = filtered_pdfs)
LS_FilterEnd_in_place ==
    /\ pc = "filter_content"
    /\ i > Len(pdf_paths_to_check_content)
    /\ all_pdfs' = filtered_pdfs
    /\ target_pdfs' = filtered_pdfs
    /\ pc' = "analyze"
    /\ i' = 1
    /\ UNCHANGED <<others, inputs, filtered_pdfs, pdf_paths_to_check_content,
                   match_counts, match_files, partial_match_counts,
                   partial_match_files, progress_queue, evaluated, last_sentences, returned,
                   report, ncalls, reference, history>>

\* target_pdfs = filtered_pdfs
LS_FilterEnd ==
    /\ pc = "filter_content"
    /\ i > Len(pdf_paths_to_check_content)
    /\ target_pdfs' = filtered_pdfs
    /\ pc' = "analyze"
    /\ i' = 1
    /\ UNCHANGED <<others, inputs, all_pdfs, filtered_pdfs, pdf_paths_to_check_content,
                   match_counts, match_files, partial_match_counts,
                   partial_match_files, progress_queue, evaluated, last_sentences, returned,
                   report, ncalls, reference, history>>

\* one iteration of the loop "Analyzing Reports"
LS_Analyze ==
    /\ matching_mode = "sentence_scoped"
    /\ pc = "analyze"
    /\ i <= Len(target_pdfs)
    /\ LET pdf_path == target_pdfs[i]
           full_text == extract_text_from_pdf(pdf_path)
       IN IF ~path_exists(pdf_path) \/ LS_SkipDocument(full_text)
          THEN /\ i' = LS_AfterSkip(i, Len(target_pdfs))
               /\ UNCHANGED <<pc, match_counts, match_files, evaluated, last_sentences>>
          ELSE IF full_text = None
          \* re.split on None raises TypeError, which nothing catches
          THEN /\ pc' = "raised"
               /\ UNCHANGED <<i, match_counts, match_files, evaluated, last_sentences>>
          ELSE LET cf == LS_TermLoop(terms_to_search, Sentences(full_text),
                              pdf_path,
                              [counts |-> match_counts, files |-> match_files])
               IN /\ last_sentences' = Sentences(full_text)
                  /\ match_counts' = cf.counts
                  /\ match_files' = cf.files
                  /\ evaluated' = Append(evaluated, pdf_path)
                  /\ i' = i + 1
                  /\ UNCHANGED pc
    /\ UNCHANGED <<others, inputs, all_pdfs, filtered_pdfs, pdf_paths_to_check_content,
                   target_pdfs, partial_match_counts, partial_match_files,
                   progress_queue, returned, report, ncalls, reference, history>>

\* variant: only the terms that matched are returned
LS_Result_matched_only ==
    LET hit == {t \in DOMAIN match_counts : match_counts[t] > 0}
    IN [files  |-> [t \in hit |-> match_files[t]],
        counts |-> [t \in hit |-> match_counts[t]],
        total  |-> Cardinality(UNION {match_files[t] : t \in hit})]

\* the value returned by local-search.py's find_and_process_pdfs
LS_Result ==
    [files  |-> match_files,
     counts |-> match_counts,
     total  |-> Cardinality(UnionOver(terms_to_search, match_files))]

\* the analysis loop is exhausted: the total is computed and the call returns
LS_Return ==
    /\ matching_mode = "sentence_scoped"
    /\ pc = "analyze"
    /\ i > Len(target_pdfs)
    /\ returned' = LS_Result
    /\ pc' = "done"
    /\ ncalls' = ncalls + 1
    /\ reference' = IF ncalls = 0
                    THEN [pdfs |-> all_pdfs,
                          outcome |-> [files |-> LS_Result.files,
                                       counts |-> LS_Result.counts,
                                       total |-> LS_Result.total,
                                       partial_files |-> <<>>,
                                       partial_counts |-> <<>>,
                                       partial_total |-> 0]]
                    ELSE reference
    /\ history' = Append(history,
                      Completed(all_pdfs, filter_keyword, target_pdfs,
                                [files |-> LS_Result.files,
                                 counts |-> LS_Result.counts,
                                 total |-> LS_Result.total,
                                 partial_files |-> <<>>,
                                 partial_counts |-> <<>>,
                                 partial_total |-> 0]))
    /\ UNCHANGED <<others, inputs, all_pdfs, i, filtered_pdfs, pdf_paths_to_check_content,
                   target_pdfs, match_counts, match_files, partial_match_counts,
                   partial_match_files, progress_queue, evaluated, last_sentences, report>>

\* ----------------------------------------------- whole-document evaluation
\* variant: the phrase is built without the term
negative_phrase_generic(term) == NoEvidenceOf

\* f"no evidence of {term}"
negative_phrase(term) == NoEvidenceOf \o term

\* variant: the negative phrase is only looked for in the sentences that
\* hold the term
PS_PositiveMatch_sentence(term, full_text) ==
    \E k \in DOMAIN Sentences(full_text) :
        /\ In(term, Sentences(full_text)[k])
        /\ ~In(NoEvidenceOf \o term, Sentences(full_text)[k])

\* variant: the negative phrase is not looked for
PS_PositiveMatch_term_only(term, full_text) == In(term, full_text)

\* `term in full_text and negative_phrase not in full_text`
PS_PositiveMatch(term, full_text) ==
    In(term, full_text) /\ ~In(negative_phrase(term), full_text)

\* the two statements under that condition; cf = [counts, files]
PS_RecordMatch(cf, term, pdf_path) ==
    [counts |-> [cf.counts EXCEPT ![term] = @ + 1],
     files  |-> [cf.files EXCEPT ![term] = @ \cup {pdf_path}]]

\* a loop `for term in terms_...` of PDFsearcher.py for one PDF
RECURSIVE PS_TermLoop(_, _, _, _)
PS_TermLoop(terms, full_text, pdf_path, cf) ==
    IF terms = <<>> THEN cf
    ELSE PS_TermLoop(Tail(terms), full_text, pdf_path,
            IF PS_PositiveMatch(terms[1], full_text)
            THEN PS_RecordMatch(cf, terms[1], pdf_path)
            ELSE cf)

\* `if full_text:`
PS_HasText(full_text) == Truthy(full_text)

\* write_report: update() with exact_files_dict.get(term, set()) for every
\* key of the counts dictionary
UnionOverKeys(counts, files) ==
    UNION {IF t \in DOMAIN files THEN files[t] ELSE {} : t \in DOMAIN counts}

\* int(((i + 1) / total_files) * 100), i counted from 1 here; for the list
\* lengths of the model the float product truncates to this integer quotient
progress_value(k, total_files) == (k * 100) \div total_files

Msg(type, value) == [type |-> type, value |-> value]

\* -------------------------------------------------- PDFsearcher.py actions
\* entry of find_and_process_pdfs up to the loop
PS_Enter ==
    /\ matching_mode = "whole_document"
    /\ pc \in {"idle", "done"}
    /\ ncalls < MaxCalls
    /\ \E call \in CallArgs : all_pdfs' = call.pdfs
    /\ progress_queue' = Append(progress_queue, Msg("log", "Phase 2"))
    /\ match_counts' = NewCounts(terms_to_search)
    /\ partial_match_counts' = NewCounts(terms_without_acute)
    /\ match_files' = NewFiles(terms_to_search)
    /\ partial_match_files' = NewFiles(terms_without_acute)
    /\ evaluated' = <<>>
    /\ last_sentences' = <<>>
    /\ returned' = NoResult
    /\ report' = NoReport
    /\ i' = 1
    /\ pc' = "analyze"
    /\ UNCHANGED <<others, inputs, filtered_pdfs, pdf_paths_to_check_content, target_pdfs,
                   ncalls, reference, history>>

\* one iteration of `for i, pdf_path in enumerate(all_pdfs)`
PS_Analyze ==
    /\ matching_mode = "whole_document"
    /\ pc = "analyze"
    /\ i <= Len(all_pdfs)
    /\ LET pdf_path == all_pdfs[i]
           full_text == extract_text_from_pdf(pdf_path)
       IN /\ progress_queue' = progress_queue \o
                 << Msg("progress", progress_value(i, Len(all_pdfs))),
                    Msg("log", <<"Analyzing", i, Len(all_pdfs), fs[pdf_path].name>>) >>
          /\ IF ~PS_HasText(full_text)
             THEN /\ i' = i + 1
                  /\ UNCHANGED <<pc, match_counts, match_files,
                                 partial_match_counts, partial_match_files,
                                 evaluated, last_sentences>>
             ELSE IF full_text = None
             \* `term in None` raises TypeError, which nothing catches
             THEN /\ pc' = "raised"
                  /\ UNCHANGED <<i, match_counts, match_files,
                                 partial_match_counts, partial_match_files,
                                 evaluated, last_sentences>>
             ELSE LET exact == PS_TermLoop(terms_to_search, full_text, pdf_path,
                                  [counts |-> match_counts, files |-> match_files])
                      partial == PS_TermLoop(terms_without_acute, full_text, pdf_path,
                                  [counts |-> partial_match_counts,
                                   files |-> partial_match_files])
                  IN /\ match_counts' = exact.counts
                     /\ match_files' = exact.files
                     /\ partial_match_counts' = partial.counts
                     /\ partial_match_files' = partial.files
                     /\ evaluated' = Append(evaluated, pdf_path)
                     /\ i' = i + 1
                     /\ UNCHANGED <<pc, last_sentences>>
    /\ UNCHANGED <<others, inputs, all_pdfs, filtered_pdfs, pdf_paths_to_check_content,
                   target_pdfs, returned, report, ncalls, reference, history>>

\* the loop is exhausted: the four dictionaries are returned
PS_Return ==
    /\ matching_mode = "whole_document"
    /\ pc = "analyze"
    /\ i > Len(all_pdfs)
    /\ returned' = [exact_files |-> match_files,
                    partial_files |-> partial_match_files,
                    exact_counts |-> match_counts,
                    partial_counts |-> partial_match_counts]
    /\ pc' = "write_report"
    /\ UNCHANGED <<others, inputs, all_pdfs, i, filtered_pdfs, pdf_paths_to_check_content,
                   target_pdfs, match_counts, match_files, partial_match_counts,
                   partial_match_files, progress_queue, evaluated, last_sentences, report,
                   ncalls, reference, history>>

\* what write_report derives from the returned dictionaries; the write of
\* the file succeeds or raises (and write_report returns True or False)
PS_Report(ok) ==
    [total_exact   |-> Cardinality(UnionOverKeys(returned.exact_counts,
                                                 returned.exact_files)),
     total_partial |-> Cardinality(UnionOverKeys(returned.partial_counts,
                                                 returned.partial_files)),
     written       |-> ok]

\* ----------------------------------------------------- outcome of a call
\* the per-term counts and sets and the unique totals a finished call has
\* reported (defined in the states with pc = "done")
Outcome ==
    IF matching_mode = "sentence_scoped"
    THEN [files |-> returned.files, counts |-> returned.counts,
          total |-> returned.total,
          partial_files |-> <<>>, partial_counts |-> <<>>, partial_total |-> 0]
    ELSE [files |-> returned.exact_files, counts |-> returned.exact_counts,
          total |-> report.total_exact,
          partial_files |-> returned.partial_files,
          partial_counts |-> returned.partial_counts,
          partial_total |-> report.total_partial]

\* run_analysis after find_and_process_pdfs: write_report, then "complete"
PS_WriteReport ==
    /\ pc = "write_report"
    /\ \E ok \in BOOLEAN : report' = PS_Report(ok)
    /\ progress_queue' = Append(progress_queue, Msg("complete", None))
    /\ pc' = "done"
    /\ ncalls' = ncalls + 1
    /\ reference' = IF ncalls = 0
                    THEN [pdfs |-> all_pdfs,
                          outcome |-> [files |-> returned.exact_files,
                                       counts |-> returned.exact_counts,
                                       total |-> report'.total_exact,
                                       partial_files |-> returned.partial_files,
                                       partial_counts |-> returned.partial_counts,
                                       partial_total |-> report'.total_partial]]
                    ELSE reference
    /\ history' = Append(history,
                      Completed(all_pdfs, filter_keyword, all_pdfs,
                                [files |-> returned.exact_files,
                                 counts |-> returned.exact_counts,
                                 total |-> report'.total_exact,
                                 partial_files |-> returned.partial_files,
                                 partial_counts |-> returned.partial_counts,
                                 partial_total |-> report'.total_partial]))
    /\ UNCHANGED <<others, inputs, all_pdfs, i, filtered_pdfs, pdf_paths_to_check_content,
                   target_pdfs, match_counts, match_files, partial_match_counts,
                   partial_match_files, evaluated, last_sentences, returned>>

\* ------------------------------------------------------------ term lists
\* code-point order of the characters of the alphabet
CharOrder == <<" ", ".", "A", "B", "a", "b", "c", "n", "u", "x">>
Ord(c) == CHOOSE k \in DOMAIN CharOrder : CharOrder[k] = c

\* Python's < on two strings
RECURSIVE StrLess(_, _)
StrLess(s, t) ==
    IF s = <<>> THEN t # <<>>
    ELSE IF t = <<>> THEN FALSE
    ELSE IF s[1] = t[1] THEN StrLess(Tail(s), Tail(t))
    ELSE Ord(s[1]) < Ord(t[1])

\* sorted(list(S)) for a set of strings
RECURSIVE Sorted(_)
Sorted(S) ==
    IF S = {} THEN <<>>
    ELSE LET m == CHOOSE x \in S : \A y \in S \ {x} : StrLess(x, y)
         IN <<m>> \o Sorted(S \ {m})

\* str.replace(old, new), old not empty
RECURSIVE Replace(_, _, _)
Replace(s, old, new) ==
    IF Len(s) < Len(old) THEN s
    ELSE IF SubSeq(s, 1, Len(old)) = old
         THEN new \o Replace(SubSeq(s, Len(old) + 1, Len(s)), old, new)
         ELSE <<s[1]>> \o Replace(Tail(s), old, new)

\* sorted(list(set([term.replace('acute ', '') for term in terms_with_acute])))
without_acute(terms_with_acute) ==
    Sorted({Replace(terms_with_acute[k], Acute, <<>>) : k \in DOMAIN terms_with_acute})

\* the term lists of the sample corpus: {a, b} and {b, 'acute a'}
TermLists == { << <<"a">>, <<"b">> >>,
               << <<"b">>, <<"c", " ", "a">> >> }

\* the --scan keywords tried on the sample corpus
FilterKeywords == {None, <<"B">>}

\* ------------------------------------------- PDFsearcher.py, PdfSearchApp
\* analysis runs started in one behaviour
MaxGuiRuns == 2
\* most items of the listbox
MaxTerms == 3

\* DEFAULT_SEARCH_TERMS, abbreviated to two terms: 'b' and 'acute a'
DEFAULT_SEARCH_TERMS == << <<"b">>, <<"c", " ", "a">> >>

\* what the user types into the entry: 'A', 'a ' and blanks
GuiEntries == {<<"A">>, <<"a", " ">>, <<" ">>}

\* the locals of the running call and its record
call_vars == <<pc, all_pdfs, i, filtered_pdfs, pdf_paths_to_check_content,
               target_pdfs, match_counts, match_files, partial_match_counts,
               partial_match_files, evaluated, last_sentences, returned,
               report, ncalls, reference, history>>

\* the list without the items at the selected indices
RemoveAt(items, selection) ==
    LET keep == {k \in DOMAIN items : k \notin selection}
        F[n \in 0..Len(items)] ==
            IF n = 0 THEN <<>>
            ELSE IF n \in keep THEN Append(F[n - 1], items[n]) ELSE F[n - 1]
    IN F[Len(items)]

\* select_reports_folder: the dialog returned a folder
select_reports_folder ==
    /\ reports_folder = ""
    /\ reports_folder' = "reports"
    /\ UNCHANGED <<search_vars, archive_vars, cleaner_vars, sorter_vars,
                   terms_listbox, run_button, progress_bar, status_label,
                   log_text, thread, started, search_terms, reads, dialogs>>

\* variant of add_term that also appends to the list a running analysis uses
add_term_shared(entry) ==
    LET new_term == Lower(Strip(entry))
    IN /\ Len(terms_listbox) < MaxTerms
       /\ new_term # <<>>
       /\ new_term \notin Range(terms_listbox)
       /\ terms_listbox' = Append(terms_listbox, new_term)
       /\ terms_to_search' = IF thread = "call"
                             THEN Append(terms_to_search, new_term)
                             ELSE terms_to_search
       /\ UNCHANGED <<fs, matching_mode, corpus_pdfs, terms_without_acute,
                      filter_keyword, negative_keywords, call_vars,
                      progress_queue, archive_vars, cleaner_vars, sorter_vars,
                      reports_folder, run_button, progress_bar, status_label,
                      log_text, thread, started, search_terms, reads, dialogs>>

\* add_term: the stripped, lower-cased entry is appended unless it is empty
\* or already listed
add_term(entry) ==
    LET new_term == Lower(Strip(entry))
    IN /\ Len(terms_listbox) < MaxTerms
       /\ new_term # <<>>
       /\ new_term \notin Range(terms_listbox)
       /\ terms_listbox' = Append(terms_listbox, new_term)
       /\ UNCHANGED <<search_vars, archive_vars, cleaner_vars, sorter_vars,
                      reports_folder, run_button, progress_bar, status_label,
                      log_text, thread, started, search_terms, reads, dialogs>>

\* remove_term: the selected items are deleted, last index first
remove_term(selection) ==
    /\ selection # {}
    /\ selection \subseteq DOMAIN terms_listbox
    /\ terms_listbox' = RemoveAt(terms_listbox, selection)
    /\ UNCHANGED <<search_vars, archive_vars, cleaner_vars, sorter_vars,
                   reports_folder, run_button, progress_bar, status_label,
                   log_text, thread, started, search_terms, reads, dialogs>>

\* variant of start_analysis_thread that leaves the button enabled
start_analysis_thread_enabled ==
    /\ run_button = "normal"
    /\ reports_folder # ""
    /\ started < MaxGuiRuns
    /\ log_text' = 0
    /\ progress_bar' = 0
    /\ started' = started + 1
    /\ thread' = "get_pdf_paths"
    /\ UNCHANGED <<search_vars, archive_vars, cleaner_vars, sorter_vars,
                   reports_folder, terms_listbox, run_button, status_label,
                   search_terms, reads, dialogs>>

\* start_analysis_thread, a click on the enabled button with a folder
\* selected: the button is disabled, log and bar are reset, the worker
\* thread is started
start_analysis_thread ==
    /\ run_button = "normal"
    /\ reports_folder # ""
    /\ started < MaxGuiRuns
    /\ run_button' = "disabled"
    /\ log_text' = 0
    /\ progress_bar' = 0
    /\ started' = started + 1
    /\ thread' = "get_pdf_paths"
    /\ UNCHANGED <<search_vars, archive_vars, cleaner_vars, sorter_vars,
                   reports_folder, terms_listbox, status_label,
                   search_terms, reads, dialogs>>

\* run_analysis lines 243-244, in the worker: get_pdf_paths puts its log
\* lines
RA_GetPdfPaths ==
    /\ thread = "get_pdf_paths"
    /\ progress_queue' = progress_queue \o
           << Msg("log", "Phase 1"), Msg("log", "Scanning folder"),
              Msg("log", "Discovery complete") >>
    /\ thread' = "read_terms"
    /\ UNCHANGED <<inputs, call_vars, archive_vars, cleaner_vars, sorter_vars,
                   reports_folder, terms_listbox, run_button, progress_bar,
                   status_label, log_text, started, search_terms, reads,
                   dialogs>>

\* run_analysis lines 246-248: the listbox is read and both term lists are
\* derived from what was read
RA_ReadTerms ==
    /\ thread = "read_terms"
    /\ search_terms' = terms_listbox
    /\ terms_to_search' = Sorted(Range(search_terms'))
    /\ terms_without_acute' = without_acute(terms_to_search')
    /\ reads' = reads + 1
    /\ thread' = "call"
    /\ UNCHANGED <<fs, matching_mode, corpus_pdfs, filter_keyword,
                   negative_keywords, call_vars, progress_queue, archive_vars,
                   cleaner_vars, sorter_vars, reports_folder, terms_listbox,
                   run_button, progress_bar, status_label, log_text, started,
                   dialogs>>

\* run_analysis lines 250-252: the started worker calls find_and_process_pdfs
RA_Call ==
    /\ thread = "call"
    /\ started > ncalls
    /\ PS_Enter

\* analysis_complete
analysis_complete ==
    /\ status_label' = "Complete! Report saved"
    /\ dialogs' = dialogs + 1
    /\ run_button' = "normal"
    /\ progress_bar' = 100
    /\ UNCHANGED log_text

\* what check_queue does with one message
HandleMessage(message) ==
    IF message.type = "log"
    THEN /\ log_text' = log_text + 1
         /\ UNCHANGED <<progress_bar, status_label, run_button, dialogs>>
    ELSE IF message.type = "progress"
    THEN /\ progress_bar' = message.value
         /\ UNCHANGED <<log_text, status_label, run_button, dialogs>>
    ELSE analysis_complete

\* variant of check_queue that takes the newest message first
check_queue_newest_first ==
    /\ progress_queue # <<>>
    /\ HandleMessage(progress_queue[Len(progress_queue)])
    /\ progress_queue' = SubSeq(progress_queue, 1, Len(progress_queue) - 1)
    /\ UNCHANGED <<inputs, call_vars, archive_vars, cleaner_vars, sorter_vars,
                   reports_folder, terms_listbox, thread, started,
                   search_terms, reads>>

\* one turn of the loop of check_queue: get_nowait and the branch for the
\* message type (queue.Empty ends the loop and changes nothing)
check_queue ==
    /\ progress_queue # <<>>
    /\ HandleMessage(Head(progress_queue))
    /\ progress_queue' = Tail(progress_queue)
    /\ UNCHANGED <<inputs, call_vars, archive_vars, cleaner_vars, sorter_vars,
                   reports_folder, terms_listbox, thread, started,
                   search_terms, reads>>

\* ------------------------------ zipper.py and zipper-destructive.py
\* runs of process_folders in one behaviour
MaxZipRuns == 2
\* most patient folders under the base directory
MaxFolders == 2

\* str.endswith(suffix)
EndsWith(s, suffix) ==
    /\ Len(suffix) <= Len(s)
    /\ SubSeq(s, Len(s) - Len(suffix) + 1, Len(s)) = suffix

\* '.pdf', abbreviated
DotPdf == <<".", "p">>

\* file names of a patient folder: "a.pdf", "ba.pdf", "A.PDF" is left out,
\* and a file that is no PDF
APdf == <<"a">> \o DotPdf
BaPdf == <<"b", "a">> \o DotPdf
NoPdf == <<"x">>

\* base_dir/<month>/<patient>: the month folders and the patient names
Months == {1, 2}
FolderNames == {"p1", "p2"}

\* the order in which os.listdir yields the patient folders
PathOrder == << <<1, "p1">>, <<1, "p2">>, <<2, "p1">>, <<2, "p2">> >>

\* os.path.basename(folder_path.rstrip(os.sep))
basename(folder_path) == folder_path[2]

\* the file <zipped_dir>/<base name>.zip: absent, not a readable archive
\* (truncated, or written by two processes at once), or an archive with
\* its entries and the patient folder it was made from (NoSource for an
\* archive that was there before)
NoZip == [kind |-> "none"]
BadZip == [kind |-> "bad"]
NoSource == <<0, "">>
Zip(entries, source) == [kind |-> "zip", entries |-> entries, source |-> source]

\* a patient folder: its os.listdir and whether it (still) exists
Folder(listing) == [listing |-> listing, exists |-> TRUE]

\* has_pdf = any(f.lower().endswith('.pdf') for f in os.listdir(folder))
has_pdf(listing) ==
    \E k \in DOMAIN listing : EndsWith(Lower(listing[k]), DotPdf)

\* what shutil.make_archive(zip_output_path, 'zip', root_dir=folder) writes
make_archive(folder_path) ==
    Zip(Range(patient_folders[folder_path].listing), folder_path)

\* step 1 of process_folders: every directory base_dir/<month>/<patient>
all_patient_folders ==
    LET IsDir(q) == q \in DOMAIN patient_folders /\ patient_folders[q].exists
    IN SelectSeq(PathOrder, IsDir)

\* step 2: the base names of the files of zipped_dir that end in '.zip'
completed_zips_basenames ==
    {b \in DOMAIN zipped_dir : zipped_dir[b] # NoZip}

\* variant of step 3 without the checkpoint
remaining_folders_all(folders, completed) == folders

\* step 3: the folders whose base name is not among them
remaining_folders(folders, completed) ==
    LET Remaining(q) == basename(q) \notin completed
    IN SelectSeq(folders, Remaining)

\* the positions at which a worker task has ended
TaskEnded ==
    IF script = "zipper"
    THEN {"archived", "failed"}
    ELSE {"no_pdf", "crashed", "deleted", "archived_not_deleted", "failed"}

\* the tasks that are inside make_archive on the archive of base name b
Writers(b) ==
    {m \in DOMAIN folders_to_zip :
        basename(folders_to_zip[m]) = b /\ task_state[m] \in {"writing", "raced"}}

\* process_folders up to executor.map: both returns before it end the run
ZP_Scan ==
    /\ script \in {"zipper", "zipper_destructive"}
    /\ zpc = "idle"
    /\ zruns < MaxZipRuns
    /\ folders_to_zip' = remaining_folders(all_patient_folders,
                                           completed_zips_basenames)
    /\ task_state' = [k \in DOMAIN folders_to_zip' |-> "pending"]
    /\ zpc' = "running"
    /\ UNCHANGED <<search_vars, gui_vars, sorter_vars, cleaner_vars, script, patient_folders,
                   zipped_dir, zruns, run_log>>

\* zipper-destructive.py lines 48-56: the PDF test before the try block;
\* os.listdir raises when the folder cannot be read
ZD_CheckPdf(k) ==
    /\ script = "zipper_destructive"
    /\ zpc = "running"
    /\ k \in DOMAIN folders_to_zip
    /\ task_state[k] = "pending"
    /\ \/ task_state' = [task_state EXCEPT ![k] =
              IF has_pdf(patient_folders[folders_to_zip[k]].listing)
              THEN "checked" ELSE "no_pdf"]
       \/ task_state' = [task_state EXCEPT ![k] = "crashed"]
    /\ UNCHANGED <<search_vars, gui_vars, sorter_vars, cleaner_vars, script, patient_folders,
                   zipped_dir, zpc, folders_to_zip, zruns, run_log>>

\* make_archive starts: os.makedirs or the open of the archive raises and
\* nothing is written, or the archive file is created empty; a task that
\* meets another one writing the same file races with it
ZT_OpenArchive(k) ==
    /\ zpc = "running"
    /\ k \in DOMAIN folders_to_zip
    /\ task_state[k] = IF script = "zipper" THEN "pending" ELSE "checked"
    /\ LET b == basename(folders_to_zip[k])
       IN \/ /\ task_state' = [task_state EXCEPT ![k] = "failed"]
             /\ UNCHANGED zipped_dir
          \/ /\ task_state' = [m \in DOMAIN task_state |->
                    IF m = k
                    THEN IF Writers(b) = {} THEN "writing" ELSE "raced"
                    ELSE IF m \in Writers(b) THEN "raced" ELSE task_state[m]]
             /\ zipped_dir' = [zipped_dir EXCEPT ![b] = BadZip]
    /\ UNCHANGED <<search_vars, gui_vars, sorter_vars, cleaner_vars, script, patient_folders,
                   zpc, folders_to_zip, zruns, run_log>>

\* make_archive ends: it returns and the file holds the folder (a file two
\* tasks wrote into holds either this folder or garbage), or it raises and
\* leaves what is there
ZT_CloseArchive(k) ==
    /\ zpc = "running"
    /\ k \in DOMAIN folders_to_zip
    /\ task_state[k] \in {"writing", "raced"}
    /\ LET b == basename(folders_to_zip[k])
       IN \/ /\ task_state' = [task_state EXCEPT ![k] = "archived"]
             /\ \/ zipped_dir' = [zipped_dir EXCEPT
                                     ![b] = make_archive(folders_to_zip[k])]
                \/ /\ task_state[k] = "raced"
                   /\ zipped_dir' = [zipped_dir EXCEPT ![b] = BadZip]
          \/ /\ task_state' = [task_state EXCEPT ![k] = "failed"]
             /\ UNCHANGED zipped_dir
    /\ UNCHANGED <<search_vars, gui_vars, sorter_vars, cleaner_vars, script, patient_folders,
                   zpc, folders_to_zip, zruns, run_log>>

\* zipper-destructive.py lines 65-67: shutil.rmtree after the archive was
\* made; an exception of rmtree is caught like one of make_archive
ZD_Delete(k) ==
    /\ script = "zipper_destructive"
    /\ zpc = "running"
    /\ k \in DOMAIN folders_to_zip
    /\ task_state[k] = "archived"
    /\ \/ /\ patient_folders' = [patient_folders EXCEPT
                                    ![folders_to_zip[k]].exists = FALSE]
          /\ task_state' = [task_state EXCEPT ![k] = "deleted"]
       \/ /\ task_state' = [task_state EXCEPT ![k] = "archived_not_deleted"]
          /\ UNCHANGED patient_folders
    /\ UNCHANGED <<search_vars, gui_vars, sorter_vars, cleaner_vars, script, zipped_dir, zpc,
                   folders_to_zip, zruns, run_log>>

\* the with block of the executor is left: every task has ended
ZP_Finish ==
    /\ script \in {"zipper", "zipper_destructive"}
    /\ zpc = "running"
    /\ \A k \in DOMAIN folders_to_zip : task_state[k] \in TaskEnded
    /\ run_log' = Append(run_log, [folders |-> folders_to_zip, ends |-> task_state])
    /\ zruns' = zruns + 1
    /\ zpc' = "idle"
    /\ UNCHANGED <<search_vars, gui_vars, sorter_vars, cleaner_vars, script, patient_folders,
                   zipped_dir, folders_to_zip, task_state>>

\* ------------------------------------------------------------- cleaner.py
\* what the user can type at the prompt: 'yes', 'YES', 'yes ' and 'no',
\* abbreviated to one letter each
Yes == <<"y">>
Answers == {Yes, <<"Y">>, <<"y", " ">>, <<"n">>}

\* an archive entry in a sub-directory: 'd/a.pdf'
SubdirAPdf == <<"d", "/">> \o APdf

\* the archives the zips directory can hold for one base name
CleanerZips == {NoZip, BadZip} \cup
               {Zip(entries, NoSource) : entries \in {{}, {APdf}, {BaPdf}, {SubdirAPdf}}}

\* the listings a patient folder can have
CleanerListings == {<<NoPdf>>, <<APdf>>, <<NoPdf, APdf>>, <<BaPdf, APdf>>}

\* get_zip_basenames: splitext(f)[0] of the files ending in '.zip'
get_zip_basenames == {b \in DOMAIN zipped_dir : zipped_dir[b] # NoZip}

\* [f for f in os.listdir(folder_path) if f.lower().endswith('.pdf')]
pdf_files(listing) ==
    LET IsPdf(f) == EndsWith(Lower(f), DotPdf)
    IN SelectSeq(listing, IsPdf)

\* variant: the entry has to be the file name itself
check_zip_content_exact(zip, pdf_filename) ==
    /\ zip.kind = "zip"
    /\ pdf_filename \in zip.entries

\* check_zip_content: some entry of the archive ends with the file name;
\* BadZipFile and FileNotFoundError give False
check_zip_content(zip, pdf_filename) ==
    /\ zip.kind = "zip"
    /\ \E entry \in zip.entries : EndsWith(entry, pdf_filename)

\* main, lines 70-96: the folders whose base name has a zip
CL_Scan ==
    /\ script = "cleaner"
    /\ zpc = "idle"
    /\ LET HasZip(q) == basename(q) \in get_zip_basenames
       IN folders_to_delete' = SelectSeq(all_patient_folders, HasZip)
    /\ zpc' = IF folders_to_delete' = <<>> THEN "done" ELSE "prompt"
    /\ UNCHANGED <<search_vars, gui_vars, sorter_vars, archive_fs, script, folders_to_zip, task_state,
                   zruns, run_log, typed, choice, ci, deleted_count,
                   skipped_count>>

\* lines 100-108: choice = input(...).lower(); anything but 'yes' ends main
CL_Prompt ==
    /\ script = "cleaner"
    /\ zpc = "prompt"
    /\ typed' \in Answers
    /\ choice' = Lower(typed')
    /\ zpc' = IF choice' # Yes THEN "done" ELSE "deleting"
    /\ UNCHANGED <<search_vars, gui_vars, sorter_vars, archive_fs, script, folders_to_zip, task_state,
                   zruns, run_log, folders_to_delete, ci, deleted_count,
                   skipped_count>>

\* one iteration of `for folder_path in pbar`, lines 116-140; rmtree deletes
\* the folder or raises OSError
CL_Delete ==
    /\ script = "cleaner"
    /\ zpc = "deleting"
    /\ ci <= Len(folders_to_delete)
    /\ LET folder_path == folders_to_delete[ci]
           found == pdf_files(patient_folders[folder_path].listing)
           zip_path == basename(folder_path)
       IN IF found = <<>>
          THEN /\ skipped_count' = skipped_count + 1
               /\ UNCHANGED <<patient_folders, deleted_count>>
          ELSE IF check_zip_content(zipped_dir[zip_path], found[1])
          THEN \/ /\ patient_folders' =
                        [patient_folders EXCEPT ![folder_path].exists = FALSE]
                  /\ deleted_count' = deleted_count + 1
                  /\ UNCHANGED skipped_count
               \/ /\ skipped_count' = skipped_count + 1
                  /\ UNCHANGED <<patient_folders, deleted_count>>
          ELSE /\ skipped_count' = skipped_count + 1
               /\ UNCHANGED <<patient_folders, deleted_count>>
    /\ ci' = ci + 1
    /\ UNCHANGED <<search_vars, gui_vars, sorter_vars, script, zipped_dir, zpc, folders_to_zip,
                   task_state, zruns, run_log, typed, choice, folders_to_delete>>

\* the loop is exhausted: the summary is printed
CL_End ==
    /\ script = "cleaner"
    /\ zpc = "deleting"
    /\ ci > Len(folders_to_delete)
    /\ zpc' = "done"
    /\ UNCHANGED <<search_vars, gui_vars, sorter_vars, archive_fs, script, folders_to_zip, task_state,
                   zruns, run_log, cleaner_vars>>

\* --------------------------------------- updated-sorter.py, process_files
\* longest work list
MaxFiles == 3

\* what the environment holds for a report file: whether it is in the source
\* directory, whether extract_info_from_filename finds a patient name, and
\* what find_patient_folder and os.listdir of the matched folder meet:
\*   "none"        no folder for the name
\*   "ambiguous"   several folders and no age in the PDF
\*   "unreadable"  one folder, which os.listdir cannot read any more
\*   "has_report"  one folder, which already holds the file
\*   "ready"       one folder without the file
Report(in_source, named, folder) ==
    [in_source |-> in_source, named |-> named, folder |-> folder]

SorterReports ==
    [gone       |-> Report(FALSE, TRUE, "ready"),
     nameless   |-> Report(TRUE, FALSE, "none"),
     stray      |-> Report(TRUE, TRUE, "none"),
     ambiguous  |-> Report(TRUE, TRUE, "ambiguous"),
     unreadable |-> Report(TRUE, TRUE, "unreadable"),
     duplicate  |-> Report(TRUE, TRUE, "has_report"),
     ready      |-> Report(TRUE, TRUE, "ready")]

\* extract_info_from_filename(filename)[0] is not None
extract_info_from_filename(filename) == SorterReports[filename].named

\* the None that find_patient_folder returns for the folder path
NoFolder == "none"

\* find_patient_folder: (matched_folder_path, reason)
find_patient_folder(filename) ==
    LET folder == SorterReports[filename].folder
    IN IF folder = "none" THEN <<NoFolder, "No folder found">>
       ELSE IF folder = "ambiguous" THEN <<NoFolder, "Ambiguous name match">>
       ELSE <<folder, "Success">>

\* lines 212-224: the work list is read; an empty one returns [], 0
SR_Start ==
    /\ spc = "idle"
    /\ skipped_files' = <<>>
    /\ moved_count' = 0
    /\ si' = 1
    /\ spc' = IF pdf_files_to_process = <<>> THEN "returned" ELSE "loop"
    /\ UNCHANGED <<search_vars, archive_vars, cleaner_vars, gui_vars,
                   source_dir, pdf_files_to_process>>

\* one iteration of `for filename in progress_bar`, lines 227-262;
\* shutil.move moves the file or raises, os.listdir of an unreadable folder
\* raises outside every try block
SR_File ==
    /\ spc = "loop"
    /\ si <= Len(pdf_files_to_process)
    /\ LET filename == pdf_files_to_process[si]
           found == find_patient_folder(filename)
           Skip(reason) ==
               /\ skipped_files' = Append(skipped_files, <<reason, filename>>)
               /\ si' = si + 1
               /\ UNCHANGED <<moved_count, source_dir, spc>>
       IN IF filename \notin source_dir
          THEN Skip("File Not Found in Source")
          ELSE IF ~extract_info_from_filename(filename)
          THEN Skip("Name Parsing Failed")
          ELSE IF found[1] = NoFolder
          THEN Skip(found[2])
          ELSE IF found[1] = "unreadable"
          THEN /\ spc' = "raised"
               /\ UNCHANGED <<skipped_files, moved_count, source_dir, si>>
          ELSE IF found[1] = "has_report"
          THEN Skip("Target folder already contains this exact report")
          ELSE \/ /\ source_dir' = source_dir \ {filename}
                  /\ moved_count' = moved_count + 1
                  /\ si' = si + 1
                  /\ UNCHANGED <<skipped_files, spc>>
               \/ Skip("File Move Error")
    /\ UNCHANGED <<search_vars, archive_vars, cleaner_vars, gui_vars,
                   pdf_files_to_process>>

\* line 264: return skipped_files, moved_count
SR_Return ==
    /\ spc = "loop"
    /\ si > Len(pdf_files_to_process)
    /\ spc' = "returned"
    /\ UNCHANGED <<search_vars, archive_vars, cleaner_vars, gui_vars,
                   source_dir, pdf_files_to_process, si, skipped_files,
                   moved_count>>

\* ------------------------------------------------------ initial states
Idle ==
    /\ pc = "idle"
    /\ all_pdfs = <<>>
    /\ i = 1
    /\ filtered_pdfs = <<>>
    /\ pdf_paths_to_check_content = <<>>
    /\ target_pdfs = <<>>
    /\ match_counts = <<>>
    /\ match_files = <<>>
    /\ partial_match_counts = <<>>
    /\ partial_match_files = <<>>
    /\ progress_queue = <<>>
    /\ evaluated = <<>>
    /\ last_sentences = <<>>
    /\ history = <<>>
    /\ returned = NoResult
    /\ report = NoReport
    /\ ncalls = 0
    /\ reference = NoReference

\* no archive script runs
ArchiveIdle ==
    /\ script = "none"
    /\ patient_folders = <<>>
    /\ zipped_dir = <<>>
    /\ zpc = "idle"
    /\ folders_to_zip = <<>>
    /\ task_state = <<>>
    /\ zruns = 0
    /\ run_log = <<>>

CleanerIdle ==
    /\ typed = <<>>
    /\ choice = <<>>
    /\ folders_to_delete = <<>>
    /\ ci = 1
    /\ deleted_count = 0
    /\ skipped_count = 0

\* the GUI is not open
GuiIdle ==
    /\ reports_folder = ""
    /\ terms_listbox = <<>>
    /\ run_button = "normal"
    /\ progress_bar = 0
    /\ status_label = "Ready"
    /\ log_text = 0
    /\ thread = "none"
    /\ started = 0
    /\ search_terms = <<>>
    /\ reads = 0
    /\ dialogs = 0

SorterIdle ==
    /\ source_dir = {}
    /\ pdf_files_to_process = <<>>
    /\ si = 1
    /\ skipped_files = <<>>
    /\ moved_count = 0
    /\ spc = "idle"

\* only the aggregators run
OthersIdle ==
    /\ ArchiveIdle
    /\ CleanerIdle
    /\ GuiIdle
    /\ SorterIdle

\* no aggregator runs
SearchIdle ==
    /\ fs = <<>>
    /\ matching_mode = "none"
    /\ corpus_pdfs = <<>>
    /\ terms_to_search = <<>>
    /\ terms_without_acute = <<>>
    /\ filter_keyword = None
    /\ negative_keywords = <<>>
    /\ Idle

\* the sample corpus, any list of at most MaxPdfs of its paths
Init ==
    /\ fs = SampleFiles
    /\ corpus_pdfs \in SeqsUpTo(Docs, MaxPdfs)
    /\ terms_to_search \in TermLists
    /\ \/ /\ matching_mode = "sentence_scoped"
          /\ filter_keyword \in FilterKeywords
          /\ terms_without_acute = <<>>
       \/ /\ matching_mode = "whole_document"
          /\ filter_keyword = None
          /\ terms_without_acute = without_acute(terms_to_search)
    /\ negative_keywords = NEGATIVE_KEYWORDS
    /\ Idle
    /\ OthersIdle

Next ==
    \/ LS_Enter
    \/ LS_FilterFilename
    \/ LS_FilterFilenameEnd
    \/ LS_FilterContent
    \/ LS_FilterEnd
    \/ LS_Analyze
    \/ LS_Return
    \/ PS_Enter
    \/ PS_Analyze
    \/ PS_Return
    \/ PS_WriteReport

Spec == Init /\ [][Next]_vars

\* ----------- one document: every short text, and each file of the sample
\* the characters of the page texts tried exhaustively
TextChars == {"a", "b", "n", "u", ".", " "}

\* the term lists tried on them: {a, b} and {a, ab}
MatchTermLists == { << <<"a">>, <<"b">> >>,
                    << <<"a">>, <<"a", "b">> >> }

\* texts with the other two terminators: "a? b", "a!b", "b! a?"
PunctuationTexts == { <<"a", "?", " ", "b">>,
                      <<"a", "!", "b">>,
                      <<"b", "!", " ", "a", "?">> }

InitMatch ==
    /\ \/ \E text \in SeqsUpTo(TextChars, MaxTextLen) \cup PunctuationTexts :
              fs = << File(<<"x">>, TRUE, TRUE, <<text>>) >>
       \/ \E d \in Docs : fs = << SampleFiles[d] >>
    /\ corpus_pdfs = <<1>>
    /\ terms_to_search \in MatchTermLists
    /\ filter_keyword = None
    /\ \/ /\ matching_mode = "sentence_scoped"
          /\ terms_without_acute = <<>>
       \/ /\ matching_mode = "whole_document"
          /\ terms_without_acute = without_acute(terms_to_search)
    /\ negative_keywords = NEGATIVE_KEYWORDS
    /\ Idle
    /\ OthersIdle

\* one call of the aggregator, unfiltered
NextMatch ==
    \/ ncalls = 0 /\ LS_Enter
    \/ LS_Analyze
    \/ LS_Return
    \/ ncalls = 0 /\ PS_Enter
    \/ PS_Analyze
    \/ PS_Return
    \/ PS_WriteReport

SpecMatch == InitMatch /\ [][NextMatch]_vars

\* ------------- one document, NEGATIVE_KEYWORDS set to the empty list
InitEmptyVocabulary ==
    /\ \E text \in SeqsUpTo(TextChars, MaxTextLen) :
           fs = << File(<<"x">>, TRUE, TRUE, <<text>>) >>
    /\ corpus_pdfs = <<1>>
    /\ terms_to_search \in MatchTermLists
    /\ filter_keyword = None
    /\ matching_mode = "sentence_scoped"
    /\ terms_without_acute = <<>>
    /\ negative_keywords = <<>>
    /\ Idle
    /\ OthersIdle

\* one call of the sentence-scoped aggregator, unfiltered
NextEmptyVocabulary ==
    \/ ncalls = 0 /\ LS_Enter
    \/ LS_Analyze
    \/ LS_Return

SpecEmptyVocabulary == InitEmptyVocabulary /\ [][NextEmptyVocabulary]_vars

\* ------ two documents: a text, and the same text with one more page that
\* reads "no evidence of " + u for a term u of the lists
PhraseTermLists == MatchTermLists \cup TermLists

InitPhrase ==
    /\ terms_to_search \in PhraseTermLists
    /\ terms_without_acute = without_acute(terms_to_search)
    /\ \E text \in SeqsUpTo(TextChars, MaxPhraseTextLen) :
       \E u \in Range(terms_to_search) \cup Range(terms_without_acute) :
           fs = << File(<<"x">>, TRUE, TRUE, <<text>>),
                   File(<<"x">>, TRUE, TRUE, <<text, NoEvidenceOf \o u>>) >>
    /\ corpus_pdfs = <<1, 2>>
    /\ matching_mode = "whole_document"
    /\ filter_keyword = None
    /\ negative_keywords = NEGATIVE_KEYWORDS
    /\ Idle
    /\ OthersIdle

\* one run of the whole-document analysis
NextPhrase ==
    \/ ncalls = 0 /\ PS_Enter
    \/ PS_Analyze
    \/ PS_Return
    \/ PS_WriteReport

SpecPhrase == InitPhrase /\ [][NextPhrase]_vars

\* ------------- the archive scripts on a tree of at most MaxFolders patient
\* folders, with or without an archive for each base name
\* the trees base_dir/<month>/<patient> with listings taken from L
Trees(L) ==
    UNION {[S -> {Folder(l) : l \in L}] :
              S \in {T \in SUBSET (Months \X FolderNames) : Cardinality(T) <= MaxFolders}}

\* the listings of the zipper models: no PDF, or a PDF and another file
ZipperListings == {<<NoPdf>>, <<APdf, NoPdf>>}

InitZip ==
    /\ script \in {"zipper", "zipper_destructive"}
    /\ patient_folders \in Trees(ZipperListings)
    /\ zipped_dir \in [FolderNames -> {NoZip, Zip({APdf}, NoSource)}]
    /\ zpc = "idle"
    /\ folders_to_zip = <<>>
    /\ task_state = <<>>
    /\ zruns = 0
    /\ run_log = <<>>
    /\ CleanerIdle
    /\ SearchIdle
    /\ GuiIdle
    /\ SorterIdle

\* runs of process_folders, one after the other; the pool runs the tasks
\* of a run in any interleaving
NextZip ==
    \/ ZP_Scan
    \/ \E k \in DOMAIN folders_to_zip : ZD_CheckPdf(k)
    \/ \E k \in DOMAIN folders_to_zip : ZT_OpenArchive(k)
    \/ \E k \in DOMAIN folders_to_zip : ZT_CloseArchive(k)
    \/ \E k \in DOMAIN folders_to_zip : ZD_Delete(k)
    \/ ZP_Finish

SpecZip == InitZip /\ [][NextZip]_vars

InitCleaner ==
    /\ script = "cleaner"
    /\ patient_folders \in Trees(CleanerListings)
    /\ zipped_dir \in [FolderNames -> CleanerZips]
    /\ zpc = "idle"
    /\ folders_to_zip = <<>>
    /\ task_state = <<>>
    /\ zruns = 0
    /\ run_log = <<>>
    /\ CleanerIdle
    /\ SearchIdle
    /\ GuiIdle
    /\ SorterIdle

\* one run of cleaner.py
NextCleaner ==
    \/ CL_Scan
    \/ CL_Prompt
    \/ CL_Delete
    \/ CL_End

SpecCleaner == InitCleaner /\ [][NextCleaner]_vars

\* ------------- the GUI with one folder selected or none, the sample corpus
\* the lists get_pdf_paths can find in the selected folder
GuiCorpora == {<<1>>, <<4, 2>>}

InitGui ==
    /\ fs = SampleFiles
    /\ corpus_pdfs \in GuiCorpora
    /\ matching_mode = "whole_document"
    /\ terms_to_search = <<>>
    /\ terms_without_acute = <<>>
    /\ filter_keyword = None
    /\ negative_keywords = NEGATIVE_KEYWORDS
    /\ Idle
    /\ reports_folder = ""
    /\ terms_listbox = DEFAULT_SEARCH_TERMS
    /\ run_button = "normal"
    /\ progress_bar = 0
    /\ status_label = "Ready"
    /\ log_text = 0
    /\ thread = "none"
    /\ started = 0
    /\ search_terms = <<>>
    /\ reads = 0
    /\ dialogs = 0
    /\ ArchiveIdle
    /\ CleanerIdle
    /\ SorterIdle

\* the callbacks of the GUI thread and the steps of the worker thread, in
\* any interleaving
NextGui ==
    \/ select_reports_folder
    \/ \E entry \in GuiEntries : add_term(entry)
    \/ \E selection \in SUBSET DOMAIN terms_listbox : remove_term(selection)
    \/ start_analysis_thread
    \/ check_queue
    \/ RA_GetPdfPaths
    \/ RA_ReadTerms
    \/ RA_Call
    \/ PS_Analyze
    \/ PS_Return
    \/ PS_WriteReport

SpecGui == InitGui /\ [][NextGui]_vars

\* ------------- the sorter on every work list of at most MaxFiles names (the
\* names of a skipped-reports file can repeat and can be missing from the
\* source directory)
InitSorter ==
    /\ source_dir = {f \in DOMAIN SorterReports : SorterReports[f].in_source}
    /\ pdf_files_to_process \in SeqsUpTo(DOMAIN SorterReports, MaxFiles)
    /\ si = 1
    /\ skipped_files = <<>>
    /\ moved_count = 0
    /\ spc = "idle"
    /\ SearchIdle
    /\ ArchiveIdle
    /\ CleanerIdle
    /\ GuiIdle

\* one call of process_files
NextSorter ==
    \/ SR_Start
    \/ SR_File
    \/ SR_Return

SpecSorter == InitSorter /\ [][NextSorter]_vars

\* ================================================================ claims
\* the text the extractor yields for a path, and whether it is present
TextOf(d) == extract_text_from_pdf(d)
HasText(d) == TextOf(d) # None /\ TextOf(d) # <<>>

\* a sentence holds the term and no phrase of the negation vocabulary
PositiveSentence(sentence, term) ==
    /\ In(term, sentence)
    /\ \A n \in DOMAIN NEGATIVE_KEYWORDS : ~In(NEGATIVE_KEYWORDS[n], sentence)

\* a sentence holds some phrase of the negation vocabulary
NegatedSentence(sentence) ==
    \E n \in DOMAIN NEGATIVE_KEYWORDS : In(NEGATIVE_KEYWORDS[n], sentence)

SentenceDone == matching_mode = "sentence_scoped" /\ pc = "done"
WholeDone == matching_mode = "whole_document" /\ pc = "done"

\* C1: sentence-scoped mode: a document with present text that went through
\* the matching pass is in a term's set iff one of its sentences holds the
\* term and no negation phrase.
C1_SentenceScopedMatch ==
    SentenceDone =>
        \A d \in Range(target_pdfs) : HasText(d) =>
            \A t \in Range(terms_to_search) :
                (d \in returned.files[t]) <=>
                    \E s \in Range(Sentences(TextOf(d))) : PositiveSentence(s, t)

\* C1 witness: a finished sentence-scoped run in which one term of the
\* document is matched and another term occurs in the text but is not
C1_Witness ==
    /\ SentenceDone
    /\ \E d \in Range(target_pdfs) : \E t, t2 \in Range(terms_to_search) :
           /\ HasText(d)
           /\ d \in returned.files[t]
           /\ In(t2, TextOf(d))
           /\ d \notin returned.files[t2]

\* C2: whole-document mode: a document with present text is in a term's set
\* iff the term is in the full text and "no evidence of " + term is not; this
\* holds for both term lists and does not look at sentences.
C2_WholeDocumentMatch ==
    WholeDone =>
        \A d \in Range(all_pdfs) : HasText(d) =>
            /\ \A t \in Range(terms_to_search) :
                   (d \in returned.exact_files[t]) <=>
                       (In(t, TextOf(d)) /\ ~In(NoEvidenceOf \o t, TextOf(d)))
            /\ \A t \in Range(terms_without_acute) :
                   (d \in returned.partial_files[t]) <=>
                       (In(t, TextOf(d)) /\ ~In(NoEvidenceOf \o t, TextOf(d)))

\* C2 witness: a finished whole-document run that matches a term although
\* the text has several sentences and every sentence holding the term also
\* holds a phrase of the negation vocabulary
C2_Witness ==
    /\ WholeDone
    /\ \E d \in Range(all_pdfs) : \E t \in Range(terms_to_search) :
           /\ HasText(d)
           /\ Len(Sentences(TextOf(d))) >= 2
           /\ d \in returned.exact_files[t]
           /\ \A s \in Range(Sentences(TextOf(d))) : ~PositiveSentence(s, t)

\* C3: sentence-scoped mode: a sentence holding the term and no negation
\* phrase makes the document a match, whatever the other sentences hold.
C3_CrossSentenceNonSuppression ==
    SentenceDone =>
        \A d \in Range(target_pdfs) : HasText(d) =>
            \A t \in Range(terms_to_search) :
                LET ss == Sentences(TextOf(d))
                IN \A k \in DOMAIN ss :
                       (PositiveSentence(ss[k], t)
                          /\ \E m \in DOMAIN ss : m # k /\ NegatedSentence(ss[m]))
                       => d \in returned.files[t]

\* C3 witness: a matched document in which another sentence holds the term
\* together with a negation phrase
C3_Witness ==
    /\ SentenceDone
    /\ \E d \in Range(target_pdfs) : \E t \in Range(terms_to_search) :
           LET ss == Sentences(TextOf(d))
           IN /\ HasText(d)
              /\ d \in returned.files[t]
              /\ \E k, m \in DOMAIN ss :
                     /\ k # m
                     /\ PositiveSentence(ss[k], t)
                     /\ In(t, ss[m]) /\ NegatedSentence(ss[m])

\* the list the analysis loop of the running call walks
AnalysisList == IF matching_mode = "sentence_scoped" THEN target_pdfs ELSE all_pdfs

RECURSIVE SumOver(_, _)
SumOver(f, S) ==
    IF S = {} THEN 0
    ELSE LET x == CHOOSE y \in S : TRUE IN f[x] + SumOver(f, S \ {x})

\* no term's set of the running call holds a path without text
NoTextlessMatch ==
    \A d \in Docs : ~HasText(d) =>
        /\ \A t \in DOMAIN match_files : d \notin match_files[t]
        /\ \A t \in DOMAIN partial_match_files : d \notin partial_match_files[t]

\* the iteration for a path without text leaves every count as it is
TextlessStepKeepsCounts ==
    (pc = "analyze" /\ i <= Len(AnalysisList) /\ ~HasText(AnalysisList[i]))
        => /\ match_counts' = match_counts
           /\ partial_match_counts' = partial_match_counts

\* the reported totals count at most the listed paths that have text
TotalsCountTextOnly ==
    pc = "done" =>
        LET n == Cardinality({d \in Range(all_pdfs) : HasText(d)})
        IN Outcome.total <= n /\ Outcome.partial_total <= n

\* C4: in both modes a path whose extracted text is None or empty is never
\* put into a term's set, its iteration changes no count, the totals do not
\* count it, and the call never ends in an uncaught exception.
C4_AbsentTextSkip ==
    /\ [](NoTextlessMatch /\ TotalsCountTextOnly /\ pc # "raised")
    /\ [][TextlessStepKeepsCounts]_vars

\* C4 witness: a finished call whose list held a path without text that went
\* through the analysis loop, next to a path that was matched
C4_Witness ==
    /\ pc = "done"
    /\ \E k \in DOMAIN AnalysisList : TextOf(AnalysisList[k]) = None
    /\ Outcome.total > 0

\* the paths of a list the extractor can read
WithText(q) == SelectSeq(q, HasText)

\* C5: unreadable paths never abort a call: at the end every readable path
\* of the analysis list has been evaluated, in order, and a call on only the
\* readable paths of the first call's list reports what the first call did.
C5_PartialFailureTolerance ==
    /\ pc # "raised"
    /\ pc = "done" => evaluated = WithText(AnalysisList)
    /\ (pc = "done" /\ ncalls >= 2 /\ all_pdfs = WithText(reference.pdfs))
           => Outcome = reference.outcome

\* C5 witness: the first call's list began with a path that cannot be read,
\* a later path of it was matched, and a second call on the readable paths
\* alone has finished
C5_Witness ==
    /\ pc = "done"
    /\ ncalls = 2
    /\ Len(reference.pdfs) >= 2
    /\ TextOf(reference.pdfs[1]) = None
    /\ all_pdfs = WithText(reference.pdfs)
    /\ all_pdfs # <<>>
    /\ Outcome.total > 0

\* C6: after a call every term's count is the number of distinct paths in
\* the term's set, also when a path is listed more than once.
C6_CountIsSetSize ==
    pc = "done" =>
        /\ \A t \in DOMAIN Outcome.counts :
               Outcome.counts[t] = Cardinality(Outcome.files[t])
        /\ \A t \in DOMAIN Outcome.partial_counts :
               Outcome.partial_counts[t] = Cardinality(Outcome.partial_files[t])

\* C7: the reported total is the size of the union of the per-term sets and
\* is at most the sum of the per-term counts (both term lists).
C7_UniqueDocumentTotal ==
    pc = "done" =>
        /\ Outcome.total =
               Cardinality(UNION {Outcome.files[t] : t \in DOMAIN Outcome.files})
        /\ Outcome.total <= SumOver(Outcome.counts, DOMAIN Outcome.counts)
        /\ Outcome.partial_total =
               Cardinality(UNION {Outcome.partial_files[t] :
                                     t \in DOMAIN Outcome.partial_files})
        /\ Outcome.partial_total <=
               SumOver(Outcome.partial_counts, DOMAIN Outcome.partial_counts)

\* C7 witness: a path matched by two terms is counted once, so the total is
\* smaller than the sum of the counts
C7_Witness ==
    /\ pc = "done"
    /\ \E t, t2 \in DOMAIN Outcome.files :
           t # t2 /\ Outcome.files[t] \cap Outcome.files[t2] # {}
    /\ Outcome.total < SumOver(Outcome.counts, DOMAIN Outcome.counts)

\* C8: a call on any rearrangement of the first call's list reports the same
\* counts, sets and totals as the first call (both modes, filter on or off).
C8_OrderIndependence ==
    (pc = "done" /\ ncalls >= 2 /\ all_pdfs \in Perms(reference.pdfs))
        => Outcome = reference.outcome

\* C8 witness: a finished call on a list that is the first call's list in
\* another order, with a filter keyword, where the paths differ in outcome
C8_Witness ==
    /\ pc = "done"
    /\ ncalls = 2
    /\ all_pdfs \in Perms(reference.pdfs)
    /\ all_pdfs # reference.pdfs
    /\ filter_keyword # None
    /\ \E t \in DOMAIN Outcome.files :
           Outcome.files[t] # {} /\ Range(all_pdfs) \ Outcome.files[t] # {}

\* C9: a second call with the same list, texts, terms and configuration
\* reports exactly what the first call reported.
C9_Idempotence ==
    (pc = "done" /\ ncalls >= 2 /\ all_pdfs = reference.pdfs)
        => /\ Outcome.counts = reference.outcome.counts
           /\ Outcome.files = reference.outcome.files
           /\ Outcome.total = reference.outcome.total
           /\ Outcome.partial_counts = reference.outcome.partial_counts
           /\ Outcome.partial_files = reference.outcome.partial_files
           /\ Outcome.partial_total = reference.outcome.partial_total

\* C9 witness: the second call on the same list has finished and the first
\* call had matches
C9_Witness ==
    /\ pc = "done"
    /\ ncalls = 2
    /\ all_pdfs = reference.pdfs
    /\ reference.outcome.total > 0

\* C10: the returned maps have exactly the supplied terms as keys; for an
\* empty list every count is 0, every set is empty and the totals are 0.
C10_CompleteKeysEmptyCorpus ==
    pc = "done" =>
        /\ DOMAIN Outcome.counts = Range(terms_to_search)
        /\ DOMAIN Outcome.files = Range(terms_to_search)
        /\ DOMAIN Outcome.partial_counts = Range(terms_without_acute)
        /\ DOMAIN Outcome.partial_files = Range(terms_without_acute)
        /\ all_pdfs = <<>> =>
               /\ \A t \in Range(terms_to_search) :
                      Outcome.counts[t] = 0 /\ Outcome.files[t] = {}
               /\ \A t \in Range(terms_without_acute) :
                      Outcome.partial_counts[t] = 0 /\ Outcome.partial_files[t] = {}
               /\ Outcome.total = 0
               /\ Outcome.partial_total = 0

\* C10 witness: a finished call on the empty list, two terms supplied
C10_Witness ==
    /\ pc = "done"
    /\ all_pdfs = <<>>
    /\ Cardinality(DOMAIN Outcome.counts) = 2

\* every sentence of the text that holds the term also holds a phrase of
\* the negation vocabulary
EveryMentionNegated(d, t) ==
    \A s \in Range(Sentences(TextOf(d))) : In(t, s) => NegatedSentence(s)

\* C11: sentence-scoped mode: the negation phrases are not tied to a term.
\* A document in which every sentence holding the term also holds some
\* phrase of the vocabulary, anywhere in the sentence, is not matched for
\* that term; another term of the same document with a sentence free of
\* negation phrases is matched all the same.
C11_NegationSuppression ==
    SentenceDone =>
        \A d \in Range(target_pdfs) : HasText(d) =>
            \A t \in Range(terms_to_search) :
                EveryMentionNegated(d, t) =>
                    /\ d \notin returned.files[t]
                    /\ \A t2 \in Range(terms_to_search) \ {t} :
                           (\E s \in Range(Sentences(TextOf(d))) :
                                PositiveSentence(s, t2))
                               => d \in returned.files[t2]

\* C11 witness: a term is mentioned and not matched because its sentence
\* holds the second phrase of the vocabulary (and not the first), while
\* another term of the same document is matched
C11_Witness ==
    /\ SentenceDone
    /\ \E d \in Range(target_pdfs) : \E t, t2 \in Range(terms_to_search) :
           /\ HasText(d)
           /\ In(t, TextOf(d))
           /\ EveryMentionNegated(d, t)
           /\ \E s \in Range(Sentences(TextOf(d))) :
                  /\ In(t, s)
                  /\ In(NEGATIVE_KEYWORDS[2], s)
                  /\ ~In(NEGATIVE_KEYWORDS[1], s)
           /\ d \notin returned.files[t]
           /\ d \in returned.files[t2]

\* C12: whole-document mode: a document whose text holds "no evidence of "
\* + term anywhere is in no set of that term (either term list), also when
\* another sentence of the text holds the term without any negation.
C12_WholeDocumentOverSuppression ==
    WholeDone =>
        \A d \in Range(all_pdfs) : HasText(d) =>
            /\ \A t \in Range(terms_to_search) :
                   In(NoEvidenceOf \o t, TextOf(d)) => d \notin returned.exact_files[t]
            /\ \A t \in Range(terms_without_acute) :
                   In(NoEvidenceOf \o t, TextOf(d)) => d \notin returned.partial_files[t]

\* C12 witness: the text holds "no evidence of " + term in one sentence and
\* the term in another sentence that has no negation phrase; the document
\* is not matched for the term
C12_Witness ==
    /\ WholeDone
    /\ \E d \in Range(all_pdfs) : \E t \in Range(terms_to_search) :
           /\ HasText(d)
           /\ In(NoEvidenceOf \o t, TextOf(d))
           /\ \E s \in Range(Sentences(TextOf(d))) : PositiveSentence(s, t)
           /\ d \notin returned.exact_files[t]

\* the page added to the second document of SpecPhrase
AddedPhrase == fs[2].pages[2]

\* w has an occurrence in s that reaches beyond the first n characters
OccursPast(w, s, n) ==
    \E k \in 0..(Len(s) - Len(w)) :
        SubSeq(s, k + 1, k + Len(w)) = w /\ k + Len(w) > n

\* in the second document some occurrence of t, or of "no evidence of " + t,
\* shares characters with the added page (or the blank that joins it)
OverlapsAdded(t) ==
    \/ OccursPast(t, TextOf(2), Len(TextOf(1)))
    \/ OccursPast(NoEvidenceOf \o t, TextOf(2), Len(TextOf(1)))

IsPrefix(t, u) == Len(t) <= Len(u) /\ SubSeq(u, 1, Len(t)) = t

\* the two documents get the same result for term t of a list
SameResult(files, t) == (1 \in files[t]) <=> (2 \in files[t])

\* C13 as stated: whole-document mode: for distinct terms t, u of a term
\* list, a document gets the same result for t with and without the phrase
\* "no evidence of " + u in its text.
C13_TermSpecificNegation ==
    WholeDone =>
        /\ \A t, u \in Range(terms_to_search) :
               (t # u /\ AddedPhrase = NoEvidenceOf \o u)
                   => SameResult(returned.exact_files, t)
        /\ \A t, u \in Range(terms_without_acute) :
               (t # u /\ AddedPhrase = NoEvidenceOf \o u)
                   => SameResult(returned.partial_files, t)

\* C13 amended: the same, for the terms t of which no occurrence (of t or
\* of "no evidence of " + t) shares characters with the added phrase; and
\* when t is a prefix of u, the phrase built for u keeps t unmatched too.
C13_TermSpecificNegationAmended ==
    WholeDone =>
        /\ \A t, u \in Range(terms_to_search) :
               (t # u /\ AddedPhrase = NoEvidenceOf \o u) =>
                   /\ ~OverlapsAdded(t) => SameResult(returned.exact_files, t)
                   /\ IsPrefix(t, u) => 2 \notin returned.exact_files[t]
        /\ \A t, u \in Range(terms_without_acute) :
               (t # u /\ AddedPhrase = NoEvidenceOf \o u) =>
                   /\ ~OverlapsAdded(t) => SameResult(returned.partial_files, t)
                   /\ IsPrefix(t, u) => 2 \notin returned.partial_files[t]

\* C13 witness: both documents are matched for t although the second holds
\* "no evidence of " + u for another term u of the list
C13_Witness ==
    /\ WholeDone
    /\ Len(fs) = 2
    /\ \E t, u \in Range(terms_to_search) :
           /\ t # u
           /\ AddedPhrase = NoEvidenceOf \o u
           /\ In(NoEvidenceOf \o u, TextOf(2))
           /\ ~OverlapsAdded(t)
           /\ 1 \in returned.exact_files[t]
           /\ 2 \in returned.exact_files[t]

\* the segmenter has run on a text: the path it was run on last, its text
Segmented == matching_mode = "sentence_scoped" /\ evaluated # <<>>
SegmenterInput == TextOf(evaluated[Len(evaluated)])

\* s without its leading and trailing whitespace, by positions
Trim(s) ==
    LET solid == {k \in 1..Len(s) : s[k] \notin Whitespace}
    IN IF solid = {} THEN <<>>
       ELSE SubSeq(s, CHOOSE k \in solid : \A m \in solid : k <= m,
                      CHOOSE k \in solid : \A m \in solid : k >= m)

\* the positions of s that hold a terminator followed by whitespace
Breaks(s) ==
    {k \in 1..(Len(s) - 1) : s[k] \in Terminators /\ s[k + 1] \in Whitespace}

\* C14: the segmenter yields a finite sequence whose elements are not empty
\* and neither start nor end with whitespace; it is empty for a text of
\* whitespace only (an empty text yields no sentences at all: it is skipped
\* before the segmenter), and it is the trimmed text alone when no
\* terminator of the text is followed by whitespace.
C14_SegmenterOutput ==
    /\ Segmented =>
          LET text == SegmenterInput
          IN /\ DOMAIN last_sentences = 1..Len(last_sentences)
             /\ Len(last_sentences) <= Len(text)
             /\ \A k \in DOMAIN last_sentences :
                    /\ last_sentences[k] # <<>>
                    /\ last_sentences[k][1] \notin Whitespace
                    /\ last_sentences[k][Len(last_sentences[k])] \notin Whitespace
             /\ Range(text) \subseteq Whitespace => last_sentences = <<>>
             /\ (Breaks(text) = {} /\ ~(Range(text) \subseteq Whitespace))
                    => last_sentences = <<Trim(text)>>
    /\ (SentenceDone /\ \A d \in Range(target_pdfs) : TextOf(d) = <<>>)
          => last_sentences = <<>>

\* C14 witness: a text without a break that starts and ends with whitespace
\* and holds a terminator has been segmented into its trimmed self
C14_Witness ==
    /\ Segmented
    /\ Breaks(SegmenterInput) = {}
    /\ Range(SegmenterInput) \cap Terminators # {}
    /\ SegmenterInput[1] \in Whitespace
    /\ SegmenterInput[Len(SegmenterInput)] \in Whitespace
    /\ last_sentences = <<Trim(SegmenterInput)>>
    /\ Len(last_sentences[1]) < Len(SegmenterInput)

\* the trimmed non-empty stretches of s between its breaks, from position
\* `from` on
RECURSIVE StretchesFrom(_, _)
StretchesFrom(s, from) ==
    LET later == {k \in Breaks(s) : k >= from}
        stop == IF later = {} THEN Len(s) + 1
                ELSE CHOOSE k \in later : \A m \in later : k <= m
        stretch == Trim(SubSeq(s, from, stop - 1))
        rest == IF stop > Len(s) THEN <<>> ELSE StretchesFrom(s, stop + 1)
    IN IF stretch = <<>> THEN rest ELSE <<stretch>> \o rest

WordChar(c) == c \notin Whitespace /\ c \notin Terminators

\* C15: the text is cut exactly at the terminators that are followed by
\* whitespace; a terminator between two word characters, or at the end of
\* the text after a word character, stays inside its sentence.
C15_SplittingRule ==
    Segmented =>
        LET text == SegmenterInput
        IN /\ last_sentences = StretchesFrom(text, 1)
           /\ \A k \in 2..(Len(text) - 1) :
                  (text[k] \in Terminators /\ WordChar(text[k - 1])
                      /\ WordChar(text[k + 1]))
                  => \E m \in DOMAIN last_sentences :
                         In(SubSeq(text, k - 1, k + 1), last_sentences[m])
           /\ (Len(text) >= 2 /\ text[Len(text)] \in Terminators
                  /\ WordChar(text[Len(text) - 1]))
                  => LET last == last_sentences[Len(last_sentences)]
                     IN SubSeq(last, Len(last) - 1, Len(last))
                            = SubSeq(text, Len(text) - 1, Len(text))

\* C15 witness: a text cut into two sentences at a terminator followed by
\* whitespace, whose last character is a terminator that stays
C15_Witness ==
    /\ Segmented
    /\ Cardinality(Breaks(SegmenterInput)) = 1
    /\ Len(last_sentences) = 2
    /\ SegmenterInput[Len(SegmenterInput)] \in Terminators
    /\ last_sentences[2][Len(last_sentences[2])] \in Terminators

\* an evaluator that examines every sentence and never stops early
RECURSIVE ExamineAll(_, _, _)
ExamineAll(ss, t, found) ==
    IF ss = <<>> THEN found
    ELSE ExamineAll(Tail(ss), t, found \/ PositiveSentence(ss[1], t))

\* C16: the result of the loop with `break` is the result of examining all
\* sentences, and a positive sentence is found whatever negated sentences
\* with the term come before it.
C16_ShortCircuitEquivalence ==
    (SentenceDone /\ Segmented) =>
        LET d == evaluated[Len(evaluated)]
        IN \A t \in Range(terms_to_search) :
               /\ (d \in returned.files[t]) <=> ExamineAll(last_sentences, t, FALSE)
               /\ \A k \in DOMAIN last_sentences :
                      (/\ PositiveSentence(last_sentences[k], t)
                       /\ \A m \in 1..(k - 1) :
                              In(t, last_sentences[m]) => NegatedSentence(last_sentences[m]))
                      => d \in returned.files[t]

\* C16 witness: a matched document whose first sentence holds the term and
\* a negation phrase and whose later sentence holds the term alone
C16_Witness ==
    /\ SentenceDone /\ Segmented
    /\ \E t \in Range(terms_to_search) :
           /\ evaluated[Len(evaluated)] \in returned.files[t]
           /\ Len(last_sentences) >= 2
           /\ In(t, last_sentences[1]) /\ NegatedSentence(last_sentences[1])
           /\ \E k \in 2..Len(last_sentences) : PositiveSentence(last_sentences[k], t)

\* the filter stage of the running sentence-scoped call is over
Filtered ==
    /\ matching_mode = "sentence_scoped"
    /\ pc \in {"analyze", "done"}

\* the file name or the present text of a path holds the lower-cased keyword
PassesKeyword(d, keyword) ==
    \/ In(Lower(keyword), Lower(fs[d].name))
    \/ HasText(d) /\ In(Lower(keyword), TextOf(d))

\* a finished unfiltered call on exactly the paths the first call's filter
\* let through reports what the first call reported
UnfilteredRunAgrees ==
    (/\ SentenceDone
     /\ Len(history) = 2
     /\ history[2].filter_keyword = None
     /\ history[2].pdfs = history[1].target)
        => history[2].outcome = history[1].outcome

InsideWordAt(w, s, k) ==
    /\ SubSeq(s, k + 1, k + Len(w)) = w
    /\ \/ k >= 1 /\ WordChar(s[k])
       \/ k + Len(w) < Len(s) /\ WordChar(s[k + Len(w) + 1])

\* w occurs in s, and only inside longer words
OnlyInsideWords(w, s) ==
    /\ In(w, s)
    /\ \A k \in 0..(Len(s) - Len(w)) :
           SubSeq(s, k + 1, k + Len(w)) = w => InsideWordAt(w, s, k)

\* every negation phrase that s holds, it holds only inside longer words
NegatedOnlyInsideWords(s) ==
    /\ NegatedSentence(s)
    /\ \A n \in DOMAIN NEGATIVE_KEYWORDS :
           In(NEGATIVE_KEYWORDS[n], s) => OnlyInsideWords(NEGATIVE_KEYWORDS[n], s)

\* C18: no word boundary is looked at.  A term that occurs only inside a
\* longer word of a sentence without negation phrases makes the document a
\* match; negation phrases that occur only inside longer words of the
\* sentences holding the term still keep the document unmatched.
C18_PureSubstringSemantics ==
    (SentenceDone /\ Segmented) =>
        LET d == evaluated[Len(evaluated)]
        IN \A t \in Range(terms_to_search) :
               /\ (\E k \in DOMAIN last_sentences :
                       /\ OnlyInsideWords(t, last_sentences[k])
                       /\ ~NegatedSentence(last_sentences[k]))
                      => d \in returned.files[t]
               /\ (\A k \in DOMAIN last_sentences :
                       In(t, last_sentences[k])
                           => NegatedOnlyInsideWords(last_sentences[k]))
                      => d \notin returned.files[t]

\* C18 witness: the term stands as a word of its own in a sentence whose
\* only negation phrase is part of a longer word, and the document is not
\* matched for the term
C18_Witness ==
    /\ SentenceDone /\ Segmented
    /\ \E t \in Range(terms_to_search) : \E k \in DOMAIN last_sentences :
           /\ In(t, last_sentences[k])
           /\ ~OnlyInsideWords(t, last_sentences[k])
           /\ NegatedOnlyInsideWords(last_sentences[k])
           /\ evaluated[Len(evaluated)] \notin returned.files[t]

\* C19: with an empty negation vocabulary the call never raises, and a
\* document with text is matched for a term iff one of its sentences holds
\* the term, whatever else the sentence holds.
C19_EmptyNegationVocabulary ==
    negative_keywords = <<>> =>
        /\ pc # "raised"
        /\ SentenceDone =>
               \A t \in Range(terms_to_search) :
                   /\ Segmented =>
                          ((evaluated[Len(evaluated)] \in returned.files[t])
                              <=> \E k \in DOMAIN last_sentences :
                                      In(t, last_sentences[k]))
                   /\ ~Segmented => returned.files[t] = {}

\* C19 witness: with the empty vocabulary a document is matched by a
\* sentence that holds a phrase of the script's own vocabulary
C19_Witness ==
    /\ negative_keywords = <<>>
    /\ SentenceDone /\ Segmented
    /\ \E t \in Range(terms_to_search) :
           /\ evaluated[Len(evaluated)] \in returned.files[t]
           /\ \A k \in DOMAIN last_sentences :
                  In(t, last_sentences[k]) => NegatedSentence(last_sentences[k])

\* the per-term counts and sets of an outcome
Aggregate(o) ==
    [files |-> o.files, counts |-> o.counts,
     partial_files |-> o.partial_files, partial_counts |-> o.partial_counts]

\* two partial aggregates merged: union of the sets, sum of the counts
Merge(x, y) ==
    [files          |-> [t \in DOMAIN x.files |-> x.files[t] \cup y.files[t]],
     counts         |-> [t \in DOMAIN x.counts |-> x.counts[t] + y.counts[t]],
     partial_files  |-> [t \in DOMAIN x.partial_files |->
                             x.partial_files[t] \cup y.partial_files[t]],
     partial_counts |-> [t \in DOMAIN x.partial_counts |->
                             x.partial_counts[t] + y.partial_counts[t]]]

\* the aggregates of a non-empty list merged from the left and from the right
RECURSIVE MergeLeft(_)
MergeLeft(as) ==
    IF Len(as) = 1 THEN as[1]
    ELSE Merge(MergeLeft(SubSeq(as, 1, Len(as) - 1)), as[Len(as)])

RECURSIVE MergeRight(_)
MergeRight(as) ==
    IF Len(as) = 1 THEN as[1] ELSE Merge(as[1], MergeRight(Tail(as)))

\* the first call ran on the whole list and the later calls, at least two,
\* ran on its consecutive parts; all of them have finished
SplitDone ==
    /\ pc = "done"
    /\ Len(history) >= 3
    /\ IsSplit(history)
    /\ Covered(history) = history[1].pdfs

\* the aggregates of the parts, in the order of the calls
PartAggregates == [k \in 1..(Len(history) - 1) |-> Aggregate(history[k + 1].outcome)]

\* merging the parts in every order, grouped from the left and from the
\* right, gives the aggregate of the run over the whole list
MergeGivesWhole ==
    \A q \in Perms(PartAggregates) :
        /\ MergeLeft(q) = Aggregate(history[1].outcome)
        /\ MergeRight(q) = Aggregate(history[1].outcome)

\* no path is in two parts
PartsShareNoPath ==
    \A k, m \in 2..Len(history) :
        k # m => Range(history[k].pdfs) \cap Range(history[m].pdfs) = {}

CallerInputs == <<all_pdfs, terms_to_search, terms_without_acute>>

\* C21: a call of the aggregator, with or without the keyword pre-filter,
\* leaves the caller's document list (elements and order) and the caller's
\* term collections as they were: no step of a running call changes them,
\* the accumulators of a call start as fresh maps over the terms, and the
\* list a finished call was given is still the list it holds.
C21_InputsUnchanged ==
    [][ /\ (pc \notin {"idle", "done"} => CallerInputs' = CallerInputs)
        /\ (pc \in {"idle", "done"} /\ pc' \notin {"idle", "done"} =>
               /\ terms_to_search' = terms_to_search
               /\ terms_without_acute' = terms_without_acute
               /\ match_counts' = [t \in Range(terms_to_search) |-> 0]
               /\ match_files' = [t \in Range(terms_to_search) |-> {}])
        /\ (pc' = "done" /\ pc # "done" =>
               history'[Len(history')].pdfs = all_pdfs) ]_vars

\* a finished filtered call that dropped a path of a list of two and
\* counted a match
C21_Witness ==
    /\ pc = "done"
    /\ matching_mode = "sentence_scoped"
    /\ Truthy(filter_keyword)
    /\ Len(all_pdfs) = 2
    /\ Len(target_pdfs) = 1
    /\ \E t \in DOMAIN match_counts : match_counts[t] > 0


\* ------------------------------------------------------------------- C22
\* C22: within one run of process_folders no two worker tasks handed to
\* the process pool write the same archive file: distinct patient folders
\* selected for zipping have distinct base names, also when they lie in
\* different month folders.
C22_NoSharedArchivePath ==
    zpc = "running" =>
        \A k, m \in DOMAIN folders_to_zip :
            k # m => basename(folders_to_zip[k]) # basename(folders_to_zip[m])

\* ------------------------------------------------------------------- C23
\* the archive of base name b holds the contents of patient folder q
HeldByArchive(q) ==
    /\ zipped_dir[basename(q)].kind = "zip"
    /\ zipped_dir[basename(q)].source = q

\* C23: zipper-destructive.py never loses data: a patient folder is deleted
\* only by a task that made its archive without error, a folder without a
\* PDF or whose archiving raised is left in place, and the contents of
\* every deleted folder are held by an archive of the zipped directory.
C23_NoDataLoss ==
    script = "zipper_destructive" =>
        \A q \in DOMAIN patient_folders :
            ~patient_folders[q].exists =>
                /\ has_pdf(patient_folders[q].listing)
                /\ \E r \in DOMAIN run_log \cup {0} :
                       LET ends == IF r = 0 THEN task_state ELSE run_log[r].ends
                           folders == IF r = 0 THEN folders_to_zip
                                      ELSE run_log[r].folders
                       IN \E k \in DOMAIN folders :
                              folders[k] = q /\ ends[k] = "deleted"
                /\ HeldByArchive(q)

\* ------------------------------------------------------------------- C25
\* every task of the run before this one made its archive
LastRunArchivedAll ==
    /\ run_log # <<>>
    /\ LET last == run_log[Len(run_log)]
       IN /\ last.folders # <<>>
          /\ \A k \in DOMAIN last.folders :
                 last.ends[k] \in {"archived", "deleted", "archived_not_deleted"}

\* C25: a patient folder whose base name is that of a .zip present in the
\* zipped directory when process_folders scans it is not handed to the
\* pool, and the run after a run in which every folder was archived hands
\* nothing to the pool.
C25_CheckpointResume ==
    [][ zpc = "idle" /\ zpc' = "running" =>
          /\ \A k \in DOMAIN folders_to_zip' :
                 zipped_dir[folders_to_zip'[k][2]] = NoZip
          /\ (LastRunArchivedAll => folders_to_zip' = <<>>) ]_vars

\* the second run starts after a first run that archived two folders, and
\* has nothing to do
C25_Witness ==
    /\ script = "zipper"
    /\ zruns = 1
    /\ zpc = "running"
    /\ folders_to_zip = <<>>
    /\ Len(run_log[1].folders) = 2
    /\ LastRunArchivedAll


\* ------------------------------------------------------------------- C24
\* the file name of an archive entry: what follows its last '/'
RECURSIVE EntryName(_)
EntryName(entry) ==
    IF \E k \in DOMAIN entry : entry[k] = "/"
    THEN EntryName(Tail(entry))
    ELSE entry

\* C24: cleaner.py deletes a patient folder only when the user answered
\* 'yes' (read here in any letter case, which is weaker than the exact
\* answer), a zip with the folder's base name exists in the zips
\* directory, the folder holds at least one PDF, and the name of the
\* folder's first PDF is the name of an entry of that zip; otherwise, and
\* with an unreadable or corrupt zip, the folder is kept.
C24_DeletionGuard ==
    script = "cleaner" =>
        \A q \in DOMAIN patient_folders :
            ~patient_folders[q].exists =>
                /\ Lower(typed) = Yes
                /\ zipped_dir[basename(q)].kind = "zip"
                /\ pdf_files(patient_folders[q].listing) # <<>>
                /\ \E entry \in zipped_dir[basename(q)].entries :
                       EntryName(entry) = pdf_files(patient_folders[q].listing)[1]


\* ------------------------------------------------------------------- C26
\* worker threads that were started and have not yet put "complete"
WorkersRunning == started - ncalls

\* a "complete" message waits in the queue
CompletePending ==
    \E k \in DOMAIN progress_queue : progress_queue[k].type = "complete"

\* C26: at most one analysis worker thread runs at any time, and the Start
\* Analysis button is disabled from the start of a run until the GUI has
\* handled that run's "complete" message.
C26_SingleWorker ==
    /\ WorkersRunning \in {0, 1}
    /\ (WorkersRunning = 1 \/ CompletePending) => run_button = "disabled"

\* the second run is analysing its documents
C26_Witness ==
    /\ started = 2
    /\ ncalls = 1
    /\ pc = "analyze"
    /\ i > 1
    /\ run_button = "disabled"

\* ------------------------------------------------------------------- C27
\* C27: the worker puts "complete" only after the matching pass and
\* write_report have returned, "complete" is the last message of its run,
\* and the GUI handles every "log" and "progress" message of the run before
\* it handles "complete": bar and button are in the finished state only
\* when no message is pending.
C27_CompletionOrdering ==
    /\ [](\A k \in DOMAIN progress_queue :
              progress_queue[k].type = "complete" =>
                  /\ k = Len(progress_queue)
                  /\ pc = "done"
                  /\ returned # NoResult
                  /\ report # NoReport)
    /\ [](run_button = "normal" => progress_queue = <<>>)
    /\ [][dialogs' # dialogs =>
              /\ Head(progress_queue).type = "complete"
              /\ progress_queue' = <<>>]_vars

\* "complete" waits behind a progress message the GUI has not handled yet
C27_Witness ==
    /\ Len(progress_queue) >= 3
    /\ progress_queue[Len(progress_queue)].type = "complete"
    /\ progress_queue[1].type = "progress"

\* ------------------------------------------------------------------- C28
\* C28: the GUI shows the status 'Complete! Report saved' and the success
\* dialog only for a run whose write_report wrote the report file: once the
\* dialog of the last finished run was shown, that run's report is written.
C28_TruthfulSuccess ==
    (/\ pc = "done"
     /\ dialogs = ncalls
     /\ dialogs > 0
     /\ status_label = "Complete! Report saved") => report.written

\* ------------------------------------------------------------------- C29
\* the worker has read the listbox and its analysis has not finished
AnalysisRunning == thread = "call" /\ started > ncalls

\* C29: a run reads the listbox once, in the worker thread after the PDF
\* discovery; both term lists of the run are derived from that read; items
\* added or removed afterwards change neither the terms nor the counts nor
\* the file sets of the running analysis.
C29_TermSnapshot ==
    /\ [](AnalysisRunning \/ (started > 0 /\ started = ncalls) =>
              /\ reads = started
              /\ terms_to_search = Sorted(Range(search_terms))
              /\ terms_without_acute =
                     Sorted({Replace(t, Acute, <<>>) : t \in Range(search_terms)})
              /\ (pc \in {"analyze", "write_report"} \/ started = ncalls) =>
                     /\ DOMAIN match_counts = Range(search_terms)
                     /\ DOMAIN match_files = Range(search_terms))
    /\ [][reads' # reads => thread = "read_terms" /\ reads' = reads + 1]_vars
    /\ [][terms_listbox' # terms_listbox =>
              UNCHANGED <<search_terms, terms_to_search, terms_without_acute,
                          match_counts, match_files, partial_match_counts,
                          partial_match_files>>]_vars

\* the analysis has evaluated a document with terms that are no longer the
\* items of the listbox
C29_Witness ==
    /\ AnalysisRunning
    /\ pc = "analyze"
    /\ evaluated # <<>>
    /\ Range(terms_listbox) # Range(search_terms)
    /\ \E t \in DOMAIN match_counts : match_counts[t] > 0


\* ------------------------------------------------------------------- C30
\* C30: in process_files every file name of the work list ends in exactly
\* one outcome, moved (moved_count incremented) or appended once to the
\* skipped list with a reason; at the end moved_count plus the length of
\* the skipped list is the number of names processed; and a failure on one
\* file never stops the processing of the files after it.
C30_SorterAccounting ==
    /\ spc = "loop" => moved_count + Len(skipped_files) = si - 1
    /\ spc = "returned" =>
           moved_count + Len(skipped_files) = Len(pdf_files_to_process)
    /\ \A k \in DOMAIN skipped_files : skipped_files[k][1] # ""
    /\ spc # "raised"

====
